---- MODULE Spec2Model ----
(***************************************************************************)
(* Opal privacy metrics engine (PrivacyMetricsEngine), the file processor  *)
(* and the session layer that feeds and aggregates it.                     *)
(*                                                                         *)
(* JavaScript values are represented as follows: an object is a record or  *)
(* a function on its keys ({} and [] are the empty function << >>), the    *)
(* value undefined is the string "undefined", NaN is the string "NaN".     *)
(* Math.random() is a rational k/n in [0,1): rng = [k |-> k, n |-> n] is   *)
(* the generator's position, and the i-th draw of a call is                *)
(* ((k + i) % n) / n.  Floating point arithmetic is modelled by exact      *)
(* rationals (numerator and denominator), Math.round rounds half up.       *)
(***************************************************************************)
EXTENDS Integers, Sequences, FiniteSets, TLC

VARIABLES
    fileAnalysis,   \* the argument of the current assessPrivacy call
    rng,            \* position of Math.random when the call starts
    pc,             \* "start": call pending, "returned": call finished
    metrics,        \* assessPrivacy's local object `metrics` as the call left it
    returned,       \* the value the call returned
    breakdownDefined,  \* whether the engine object has a method generatePrivacyBreakdown
    files,          \* the argument of the current uploadFiles call
    results,        \* the array `results` of processWithProgress
    processingQueue,  \* ApiService.processingQueue: session id -> session
    response,       \* what uploadFiles returned or threw
    panelMetrics,   \* the state `metrics` of PrivacyMetricsPanel
    overview,       \* what the summarizers of ApiService computed for `results`
    engine,         \* the fields of the singleton privacyMetricsEngine
    report,         \* the last getPrivacyDashboard or getBusinessReport call and its outcome
    upload,         \* the state of the hook useFileUpload
    dashboard,      \* the state of the hook usePrivacyDashboard
    app,            \* the state of the component App, and the dependencies its effect last saw
    inflight,       \* the promises pending: uploadFiles calls and getPrivacyDashboard calls
    prioritizeDefined  \* whether the ApiService object has a method prioritizeRecommendations

vars == <<fileAnalysis, rng, pc, metrics, returned, breakdownDefined,
          files, results, processingQueue, response, panelMetrics, overview,
          engine, report, upload, dashboard, app, inflight, prioritizeDefined>>

\* the variables of one assessPrivacy call and those of the session layer
engineVars == <<fileAnalysis, metrics, returned>>
sessionVars == <<files, results, processingQueue, response, panelMetrics, overview,
                 report>>

\* the variables of the user interface
uiVars == <<upload, dashboard, app, inflight, prioritizeDefined>>

(***************************************************************************)
(* Bounds of the model.                                                    *)
(***************************************************************************)
\* longest signal list drawn from a full alphabet
MaxSignals == 2
\* longest signal list made of one repeated signal
MaxRepeat == 6
\* number of distinct values Math.random takes (its denominator)
RandomLevels == 5
\* longest list of files uploaded at once, and longest list of results summarized
MaxFiles == 2
\* longest recommendation list handed to calculateOverallScore on its own
MaxTechniques == 2

\* number of uploadFiles calls the user interface makes
MaxUploads == 2

Undefined == "undefined"
NaN == "NaN"
\* Number.isNaN
IsNaN(x) == ToString(x) = ToString(NaN)
EmptyObject == << >>

(***************************************************************************)
(* Strings as character sequences: the column names of the inputs, the     *)
(* column names generateCSVColumns produces and the literals of the        *)
(* regular expressions of analyzeCSVSensitivity.                           *)
(***************************************************************************)
Chars ==
    "ssn" :> <<"s", "s", "n">> @@
    "email" :> <<"e", "m", "a", "i", "l">> @@
    "notes" :> <<"n", "o", "t", "e", "s">> @@
    "user_id" :> <<"u", "s", "e", "r", "_", "i", "d">> @@
    "medical" :> <<"m", "e", "d", "i", "c", "a", "l">> @@
    "salary" :> <<"s", "a", "l", "a", "r", "y">> @@
    "Name" :> <<"N", "a", "m", "e">> @@
    "email_address" :> <<"e", "m", "a", "i", "l", "_", "a", "d", "d", "r", "e", "s", "s">> @@
    "phone_age" :> <<"p", "h", "o", "n", "e", "_", "a", "g", "e">> @@
    "tax_id_mail" :> <<"t", "a", "x", "_", "i", "d", "_", "m", "a", "i", "l">> @@
    "timestamp" :> <<"t", "i", "m", "e", "s", "t", "a", "m", "p">> @@
    "transaction_amount" :> <<"t", "r", "a", "n", "s", "a", "c", "t", "i", "o", "n", "_", "a", "m", "o", "u", "n", "t">> @@
    "category" :> <<"c", "a", "t", "e", "g", "o", "r", "y">> @@
    "location" :> <<"l", "o", "c", "a", "t", "i", "o", "n">> @@
    "customer_age" :> <<"c", "u", "s", "t", "o", "m", "e", "r", "_", "a", "g", "e">> @@
    "product_name" :> <<"p", "r", "o", "d", "u", "c", "t", "_", "n", "a", "m", "e">> @@
    "revenue" :> <<"r", "e", "v", "e", "n", "u", "e">> @@
    "email_hash" :> <<"e", "m", "a", "i", "l", "_", "h", "a", "s", "h">> @@
    "session_duration" :> <<"s", "e", "s", "s", "i", "o", "n", "_", "d", "u", "r", "a", "t", "i", "o", "n">> @@
    "e-mail" :> <<"e", "-", "m", "a", "i", "l">> @@
    "mail" :> <<"m", "a", "i", "l">> @@
    "phone" :> <<"p", "h", "o", "n", "e">> @@
    "tel" :> <<"t", "e", "l">> @@
    "mobile" :> <<"m", "o", "b", "i", "l", "e">> @@
    "social" :> <<"s", "o", "c", "i", "a", "l">> @@
    "security" :> <<"s", "e", "c", "u", "r", "i", "t", "y">> @@
    "tax" :> <<"t", "a", "x">> @@
    "id" :> <<"i", "d">> @@
    "credit" :> <<"c", "r", "e", "d", "i", "t">> @@
    "card" :> <<"c", "a", "r", "d">> @@
    "number" :> <<"n", "u", "m", "b", "e", "r">> @@
    "cc" :> <<"c", "c">> @@
    "address" :> <<"a", "d", "d", "r", "e", "s", "s">> @@
    "street" :> <<"s", "t", "r", "e", "e", "t">> @@
    "zip" :> <<"z", "i", "p">> @@
    "postal" :> <<"p", "o", "s", "t", "a", "l">> @@
    "name" :> <<"n", "a", "m", "e">> @@
    "first" :> <<"f", "i", "r", "s", "t">> @@
    "last" :> <<"l", "a", "s", "t">> @@
    "birth" :> <<"b", "i", "r", "t", "h">> @@
    "date" :> <<"d", "a", "t", "e">> @@
    "dob" :> <<"d", "o", "b">> @@
    "age" :> <<"a", "g", "e">> @@
    "income" :> <<"i", "n", "c", "o", "m", "e">> @@
    "wage" :> <<"w", "a", "g", "e">> @@
    "compensation" :> <<"c", "o", "m", "p", "e", "n", "s", "a", "t", "i", "o", "n">> @@
    "health" :> <<"h", "e", "a", "l", "t", "h">> @@
    "diagnosis" :> <<"d", "i", "a", "g", "n", "o", "s", "i", "s">> @@
    "treatment" :> <<"t", "r", "e", "a", "t", "m", "e", "n", "t">> @@
    "passport" :> <<"p", "a", "s", "s", "p", "o", "r", "t">> @@
    "license" :> <<"l", "i", "c", "e", "n", "s", "e">>

\* String.prototype.toLowerCase on one character (the /i flag of the patterns)
LowerChar(c) ==
    CASE c = "N" -> "n"
      [] c = "S" -> "s"
      [] c = "E" -> "e"
      [] OTHER -> c

LowerChars(s) == [i \in 1..Len(s) |-> LowerChar(s[i])]

\* the literal lit occurs in s at position i
LiteralAt(s, lit, i) ==
    /\ i + Len(lit) - 1 <= Len(s)
    /\ \A j \in 1..Len(lit) : s[i + j - 1] = lit[j]

\* parts[1] .* parts[2] .* ... matches somewhere in s at or after position from
RECURSIVE MatchParts(_, _, _)
MatchParts(s, parts, from) ==
    IF parts = << >> THEN TRUE
    ELSE \E i \in from..Len(s) :
            /\ LiteralAt(s, Chars[Head(parts)], i)
            /\ MatchParts(s, Tail(parts), i + Len(Chars[Head(parts)]))

\* RegExp.prototype.test for a case-insensitive pattern given as its set of
\* alternatives, each a sequence of literals joined by .*
RegexTest(alternatives, column) ==
    \E alt \in alternatives : MatchParts(LowerChars(Chars[column]), alt, 1)

(***************************************************************************)
(* Numbers.                                                                *)
(***************************************************************************)
Min(a, b) == IF a <= b THEN a ELSE b
Max(a, b) == IF a >= b THEN a ELSE b

\* Math.round(num / den) for num >= 0, den > 0; NaN when den = 0 (0 / 0)
Round(num, den) ==
    IF den = 0 THEN NaN ELSE (2 * num + den) \div (2 * den)

RECURSIVE SumSeq(_)
SumSeq(s) == IF s = << >> THEN 0 ELSE Head(s) + SumSeq(Tail(s))

SeqRange(s) == {s[i] : i \in 1..Len(s)}

(***************************************************************************)
(* Math.random and getRandomNumber.                                        *)
(***************************************************************************)
\* numerator of the i-th Math.random() of a call (denominator rng.n)
MathRandom(r, i) == (r.k + i) % r.n

\* Math.floor(Math.random() * (max - min + 1)) + min
getRandomNumber(min, max, r, i) ==
    ((MathRandom(r, i) * (max - min + 1)) \div r.n) + min

\* the generator after j further draws
Advance(r, j) == [k |-> (r.k + j) % r.n, n |-> r.n]

(***************************************************************************)
(* Configuration tables of the constructor.                                *)
(***************************************************************************)
FrameworkOrder == <<"GDPR", "HIPAA", "CCPA", "SOX">>
Frameworks == SeqRange(FrameworkOrder)

\* the fields the constructor sets; weight is in hundredths, multiplier in tenths
constructor ==
    [complianceFrameworks |->
        [GDPR  |-> [weight |-> 30, requirements |->
                      <<"consent", "rightToErasure", "dataMinimization", "transparency">>],
         HIPAA |-> [weight |-> 25, requirements |->
                      <<"encryption", "accessControls", "auditTrails", "dataIntegrity">>],
         CCPA  |-> [weight |-> 25, requirements |->
                      <<"transparentCollection", "optOut", "dataRights",
                        "nonDiscrimination">>],
         SOX   |-> [weight |-> 20, requirements |->
                      <<"financialAccuracy", "internalControls", "auditability",
                        "dataRetention">>]],
     sensitivityClassification |->
        [PUBLIC       |-> [score |-> 0,   multiplier |-> 10],
         INTERNAL     |-> [score |-> 25,  multiplier |-> 12],
         CONFIDENTIAL |-> [score |-> 50,  multiplier |-> 15],
         RESTRICTED   |-> [score |-> 75,  multiplier |-> 20],
         TOP_SECRET   |-> [score |-> 100, multiplier |-> 30]],
     privacyTechniques |->
        [DIFFERENTIAL_PRIVACY   |-> [effectivenessScore |-> 95, complexity |-> "High"],
         HOMOMORPHIC_ENCRYPTION |-> [effectivenessScore |-> 98, complexity |-> "Very High"],
         SECURE_MULTIPARTY      |-> [effectivenessScore |-> 92, complexity |-> "High"],
         K_ANONYMITY            |-> [effectivenessScore |-> 75, complexity |-> "Medium"],
         L_DIVERSITY            |-> [effectivenessScore |-> 80, complexity |-> "Medium"],
         T_CLOSENESS            |-> [effectivenessScore |-> 85, complexity |-> "High"],
         DATA_MASKING           |-> [effectivenessScore |-> 60, complexity |-> "Low"],
         TOKENIZATION           |-> [effectivenessScore |-> 70, complexity |-> "Medium"],
         FEDERATED_LEARNING     |-> [effectivenessScore |-> 88, complexity |-> "High"]]]

\* this.complianceFrameworks, this.sensitivityClassification, this.privacyTechniques
complianceFrameworks == engine.complianceFrameworks
sensitivityClassification == engine.sensitivityClassification
privacyTechniques == engine.privacyTechniques

(***************************************************************************)
(* analyzeCSVSensitivity.                                                  *)
(***************************************************************************)
sensitivePatterns ==
    << [pattern |-> {<<"email">>, <<"e-mail">>, <<"mail">>},
        type |-> "EMAIL", isPII |-> TRUE, score |-> 80],
       [pattern |-> {<<"phone">>, <<"tel">>, <<"mobile">>},
        type |-> "PHONE", isPII |-> TRUE, score |-> 75],
       [pattern |-> {<<"ssn">>, <<"social", "security">>, <<"tax", "id">>},
        type |-> "SSN", isPII |-> TRUE, score |-> 95],
       [pattern |-> {<<"credit", "card">>, <<"card", "number">>, <<"cc">>},
        type |-> "CREDIT_CARD", isPII |-> TRUE, score |-> 90],
       [pattern |-> {<<"address">>, <<"street">>, <<"zip">>, <<"postal">>},
        type |-> "ADDRESS", isPII |-> TRUE, score |-> 70],
       [pattern |-> {<<"name">>, <<"first", "name">>, <<"last", "name">>},
        type |-> "NAME", isPII |-> TRUE, score |-> 65],
       [pattern |-> {<<"birth", "date">>, <<"dob">>, <<"age">>},
        type |-> "BIRTHDATE", isPII |-> TRUE, score |-> 75],
       [pattern |-> {<<"salary">>, <<"income">>, <<"wage">>, <<"compensation">>},
        type |-> "FINANCIAL", isPII |-> TRUE, score |-> 85],
       [pattern |-> {<<"medical">>, <<"health">>, <<"diagnosis">>, <<"treatment">>},
        type |-> "MEDICAL", isPII |-> TRUE, score |-> 95],
       [pattern |-> {<<"passport">>, <<"license">>, <<"id", "number">>},
        type |-> "ID_NUMBER", isPII |-> TRUE, score |-> 90] >>

\* faulty variant of MatchColumn: a rule of equal score replaces the earlier one
RECURSIVE MatchColumnLastWins(_, _, _)
MatchColumnLastWins(column, p, acc) ==
    IF p > Len(sensitivePatterns) THEN acc
    ELSE LET rule == sensitivePatterns[p] IN
         IF RegexTest(rule.pattern, column) /\ rule.score >= acc.maxScore
         THEN MatchColumnLastWins(column, p + 1,
                 [maxScore |-> rule.score, detectedType |-> rule.type, isPII |-> rule.isPII])
         ELSE MatchColumnLastWins(column, p + 1, acc)

\* the inner forEach over sensitivePatterns: acc is (maxScore, detectedType, isPII)
RECURSIVE MatchColumn(_, _, _)
MatchColumn(column, p, acc) ==
    IF p > Len(sensitivePatterns) THEN acc
    ELSE LET rule == sensitivePatterns[p] IN
         IF RegexTest(rule.pattern, column) /\ rule.score > acc.maxScore
         THEN MatchColumn(column, p + 1,
                 [maxScore |-> rule.score, detectedType |-> rule.type, isPII |-> rule.isPII])
         ELSE MatchColumn(column, p + 1, acc)

\* (maxScore, detectedType, isPII) after the inner forEach, for every string
ColumnClasses ==
    [column \in DOMAIN Chars |->
        MatchColumn(column, 1, [maxScore |-> 0, detectedType |-> "GENERAL", isPII |-> FALSE])]

ClassifyColumn(column) == ColumnClasses[column]

\* faulty variant of CSVDataTypes: the score of a matched column is capped by the
\* confidence drawn for it
RECURSIVE CSVDataTypesCappedByConfidence(_, _, _)
CSVDataTypesCappedByConfidence(columns, r, i) ==
    IF columns = << >> THEN << >>
    ELSE LET m == ClassifyColumn(Head(columns)) IN
         IF m.maxScore > 0
         THEN << [field |-> Head(columns), type |-> m.detectedType, isPII |-> m.isPII,
                  sensitivityScore |-> Min(m.maxScore, getRandomNumber(80, 95, r, i)),
                  confidence |-> getRandomNumber(80, 95, r, i)] >>
              \o CSVDataTypesCappedByConfidence(Tail(columns), r, i + 1)
         ELSE << [field |-> Head(columns), type |-> m.detectedType, isPII |-> m.isPII,
                  sensitivityScore |-> getRandomNumber(10, 30, r, i),
                  confidence |-> getRandomNumber(40, 70, r, i + 1)] >>
              \o CSVDataTypesCappedByConfidence(Tail(columns), r, i + 2)

\* the outer forEach over detectedColumns; i is the number of Math.random draws so far
RECURSIVE CSVDataTypes(_, _, _)
CSVDataTypes(columns, r, i) ==
    IF columns = << >> THEN << >>
    ELSE LET m == ClassifyColumn(Head(columns)) IN
         IF m.maxScore > 0
         THEN << [field |-> Head(columns), type |-> m.detectedType, isPII |-> m.isPII,
                  sensitivityScore |-> m.maxScore,
                  confidence |-> getRandomNumber(80, 95, r, i)] >>
              \o CSVDataTypes(Tail(columns), r, i + 1)
         ELSE << [field |-> Head(columns), type |-> m.detectedType, isPII |-> m.isPII,
                  sensitivityScore |-> getRandomNumber(10, 30, r, i),
                  confidence |-> getRandomNumber(40, 70, r, i + 1)] >>
              \o CSVDataTypes(Tail(columns), r, i + 2)

\* fileAnalysis.insights?.detectedX || []  (insights without the key, or no
\* insights at all, are the empty object)
Detected(fa, key) ==
    IF key \notin DOMAIN fa.insights THEN << >> ELSE fa.insights[key]

analyzeCSVSensitivity(fa, r) == CSVDataTypes(Detected(fa, "detectedColumns"), r, 0)

\* Math.random draws analyzeCSVSensitivity makes
RECURSIVE CSVDraws(_)
CSVDraws(columns) ==
    IF columns = << >> THEN 0
    ELSE (IF ClassifyColumn(Head(columns)).maxScore > 0 THEN 1 ELSE 2)
         + CSVDraws(Tail(columns))

(***************************************************************************)
(* analyzeImageSensitivity.                                                *)
(***************************************************************************)
toLowerCase ==
    [Person |-> "person", Vehicle |-> "vehicle", Building |-> "building",
     Text |-> "text", Document |-> "document", Logo |-> "logo",
     Product |-> "product", Medical |-> "medical"]

toUpperCase ==
    [Person |-> "PERSON", Vehicle |-> "VEHICLE", Building |-> "BUILDING",
     Text |-> "TEXT", Document |-> "DOCUMENT", Logo |-> "LOGO",
     Product |-> "PRODUCT", Medical |-> "MEDICAL"]

\* A confidence is the two-decimal string toFixed(2) makes, written as its value
\* in hundredths ("0.85" is 85), which is also parseFloat(confidence) * 100.
parseFloatTimes100(confidence) == confidence

ImageFinding(obj) ==
    LET lower == toLowerCase[obj.type]
        class == CASE lower = "person" -> [sensitivityScore |-> 85, isPII |-> TRUE]
                   [] lower \in {"text", "document"} -> [sensitivityScore |-> 70, isPII |-> TRUE]
                   [] lower = "vehicle" -> [sensitivityScore |-> 60, isPII |-> FALSE]
                   [] lower = "building" -> [sensitivityScore |-> 40, isPII |-> FALSE]
                   [] OTHER -> [sensitivityScore |-> 25, isPII |-> FALSE]
    IN [field |-> "Image_" \o obj.type, type |-> toUpperCase[obj.type],
        isPII |-> class.isPII, sensitivityScore |-> class.sensitivityScore,
        confidence |-> parseFloatTimes100(obj.confidence)]

\* obj.type.toLowerCase() throws a TypeError when obj.type is undefined
ImageThrows(fa) ==
    \E i \in 1..Len(Detected(fa, "detectedObjects")) :
        Detected(fa, "detectedObjects")[i].type = Undefined

analyzeImageSensitivity(fa) ==
    LET objs == Detected(fa, "detectedObjects")
    IN [i \in 1..Len(objs) |-> ImageFinding(objs[i])]

(***************************************************************************)
(* analyzeDocumentSensitivity.                                             *)
(***************************************************************************)
DocumentFinding(entity) ==
    LET class == CASE entity.type = "PERSON" -> [sensitivityScore |-> 80, isPII |-> TRUE]
                   [] entity.type = "ORGANIZATION" -> [sensitivityScore |-> 40, isPII |-> FALSE]
                   [] entity.type = "LOCATION" -> [sensitivityScore |-> 60, isPII |-> TRUE]
                   [] entity.type = "DATE" -> [sensitivityScore |-> 30, isPII |-> FALSE]
                   [] entity.type = "MONEY" -> [sensitivityScore |-> 70, isPII |-> TRUE]
                   [] OTHER -> [sensitivityScore |-> 50, isPII |-> TRUE]
    IN [field |-> "Doc_" \o entity.type, type |-> entity.type,
        isPII |-> class.isPII, sensitivityScore |-> class.sensitivityScore,
        confidence |-> 85, count |-> entity.count]

analyzeDocumentSensitivity(fa) ==
    LET entities == Detected(fa, "detectedEntities")
    IN [i \in 1..Len(entities) |-> DocumentFinding(entities[i])]

(***************************************************************************)
(* analyzeSensitivity and its helpers.                                     *)
(***************************************************************************)
\* dataTypes.filter(dt => dt.isPII)
RECURSIVE PIIFields(_)
PIIFields(dataTypes) ==
    IF dataTypes = << >> THEN << >>
    ELSE IF Head(dataTypes).isPII THEN <<Head(dataTypes)>> \o PIIFields(Tail(dataTypes))
         ELSE PIIFields(Tail(dataTypes))

\* faulty variant of calculateSensitivityScore: Math.floor in place of Math.round
calculateSensitivityScoreFloor(dataTypes) ==
    IF Len(dataTypes) = 0 THEN 20
    ELSE LET sum == SumSeq([i \in 1..Len(dataTypes) |-> dataTypes[i].sensitivityScore])
             piiBonus == Len(PIIFields(dataTypes)) * 5
         IN Min(100, (sum + piiBonus * Len(dataTypes)) \div Len(dataTypes))

calculateSensitivityScore(dataTypes) ==
    IF Len(dataTypes) = 0 THEN 20
    ELSE LET sum == SumSeq([i \in 1..Len(dataTypes) |-> dataTypes[i].sensitivityScore])
             piiBonus == Len(PIIFields(dataTypes)) * 5
         IN Min(100, Round(sum + piiBonus * Len(dataTypes), Len(dataTypes)))

\* faulty variant of getSensitivityLevel: the thresholds are exclusive
getSensitivityLevelExclusive(score) ==
    IF score > 85 THEN "TOP_SECRET"
    ELSE IF score > 70 THEN "RESTRICTED"
    ELSE IF score > 50 THEN "CONFIDENTIAL"
    ELSE IF score > 30 THEN "INTERNAL"
    ELSE "PUBLIC"

getSensitivityLevel(score) ==
    IF score >= 85 THEN "TOP_SECRET"
    ELSE IF score >= 70 THEN "RESTRICTED"
    ELSE IF score >= 50 THEN "CONFIDENTIAL"
    ELSE IF score >= 30 THEN "INTERNAL"
    ELSE "PUBLIC"

createFieldBreakdown(dataTypes) ==
    [t \in {dataTypes[i].type : i \in 1..Len(dataTypes)} |->
        LET idx == {i \in 1..Len(dataTypes) : dataTypes[i].type = t}
            first == CHOOSE i \in idx : \A j \in idx : i <= j
            scores == [i \in 1..Len(dataTypes) |->
                          IF i \in idx THEN dataTypes[i].sensitivityScore ELSE 0]
        IN [count |-> Cardinality(idx),
            avgSensitivity |-> Round(SumSeq(scores), Cardinality(idx)),
            isPII |-> dataTypes[first].isPII]]

analyzeSensitivity(fa, r) ==
    LET dataTypes == CASE fa.fileType = "csv" -> analyzeCSVSensitivity(fa, r)
                       [] fa.fileType = "image" -> analyzeImageSensitivity(fa)
                       [] fa.fileType = "document" -> analyzeDocumentSensitivity(fa)
                       [] OTHER -> << >>
        score == calculateSensitivityScore(dataTypes)
    IN [dataTypes |-> dataTypes,
        piiFields |-> PIIFields(dataTypes),
        sensitivityLevel |-> getSensitivityLevel(score),
        sensitivityScore |-> score,
        fieldBreakdown |-> createFieldBreakdown(dataTypes)]

\* analyzeSensitivity throws instead of returning
SensitivityThrows(fa) == fa.fileType = "image" /\ ImageThrows(fa)

\* Math.random draws analyzeSensitivity makes
SensitivityDraws(fa) ==
    IF fa.fileType = "csv" THEN CSVDraws(Detected(fa, "detectedColumns")) ELSE 0

(***************************************************************************)
(* assessCompliance and assessRequirements.                                *)
(***************************************************************************)
IndexOf(s, x) == CHOOSE i \in 1..Len(s) : s[i] = x

\* base: Math.random draws made before assessCompliance was entered
assessRequirements(framework, r, base) ==
    LET requirements == complianceFrameworks[framework].requirements
        first == base + (IndexOf(FrameworkOrder, framework) - 1) * 2 * Len(requirements)
    IN [j \in 1..Len(requirements) |->
          [requirement |-> requirements[j],
           status |-> IF 5 * MathRandom(r, first + 2 * (j - 1)) > r.n
                      THEN "MET" ELSE "PARTIAL",
           score |-> getRandomNumber(75, 95, r, first + 2 * (j - 1) + 1)]]

\* the penalty for the sensitivity level
LevelPenalty(level) ==
    IF level = "RESTRICTED" THEN 15
    ELSE IF level = "CONFIDENTIAL" THEN 10
    ELSE 0

\* the penalty for the number of PII fields
PIIPenalty(n) ==
    IF n > 5 THEN 10
    ELSE IF n > 2 THEN 5
    ELSE 0

HasType(fields, types) == \E i \in 1..Len(fields) : fields[i].type \in types

\* faulty variant of FrameworkPenalty: the GDPR rule forgets EMAIL
FrameworkPenaltyNameOnly(framework, piiFields) ==
    CASE framework = "GDPR" /\ HasType(piiFields, {"NAME"}) -> 5
      [] framework = "HIPAA" /\ HasType(piiFields, {"MEDICAL"}) -> 10
      [] framework = "CCPA" /\ HasType(piiFields, {"FINANCIAL"}) -> 8
      [] OTHER -> 0

\* the framework-specific adjustment
FrameworkPenalty(framework, piiFields) ==
    CASE framework = "GDPR" /\ HasType(piiFields, {"EMAIL", "NAME"}) -> 5
      [] framework = "HIPAA" /\ HasType(piiFields, {"MEDICAL"}) -> 10
      [] framework = "CCPA" /\ HasType(piiFields, {"FINANCIAL"}) -> 8
      [] OTHER -> 0

\* the local variable score of assessCompliance before it is clamped
RawComplianceScore(framework, sa) ==
    85 - LevelPenalty(sa.sensitivityLevel) - PIIPenalty(Len(sa.piiFields))
       - FrameworkPenalty(framework, sa.piiFields)

\* faulty variant of ClampScore: the lower limit is forgotten
ClampScoreNoFloor(score) == Min(98, score)

ClampScore(score) == Max(60, Min(98, score))

ComplianceStatus(score) ==
    IF score >= 85 THEN "COMPLIANT"
    ELSE IF score >= 70 THEN "NEEDS_ATTENTION"
    ELSE "NON_COMPLIANT"

\* faulty variant of assessCompliance: a framework whose first requirement is only
\* PARTIAL loses 5 more
assessCompliancePenalizingChecklist(sa, r, base) ==
    [framework \in Frameworks |->
        [score |-> ClampScore(RawComplianceScore(framework, sa)
                      - (IF assessRequirements(framework, r, base)[1].status = "PARTIAL"
                         THEN 5 ELSE 0)),
         status |-> ComplianceStatus(RawComplianceScore(framework, sa)),
         requirements |-> assessRequirements(framework, r, base)]]

assessCompliance(sa, r, base) ==
    [framework \in Frameworks |->
        [score |-> ClampScore(RawComplianceScore(framework, sa)),
         status |-> ComplianceStatus(RawComplianceScore(framework, sa)),
         requirements |-> assessRequirements(framework, r, base)]]

(***************************************************************************)
(* recommendPrivacyTechniques.                                             *)
(***************************************************************************)
Recommendation(technique, priority, reason) ==
    [technique |-> technique, priority |-> priority, reason |-> reason]

\* the switch on sensitivityAnalysis.sensitivityLevel
LevelRecommendations(level) ==
    CASE level \in {"RESTRICTED", "TOP_SECRET"} ->
           << Recommendation("HOMOMORPHIC_ENCRYPTION", "HIGH",
                  "Maximum privacy protection for highly sensitive data"),
              Recommendation("SECURE_MULTIPARTY", "HIGH",
                  "Secure computation without revealing individual data points") >>
      [] level = "CONFIDENTIAL" ->
           << Recommendation("DIFFERENTIAL_PRIVACY", "HIGH",
                  "Strong privacy guarantees with statistical utility"),
              Recommendation("FEDERATED_LEARNING", "MEDIUM",
                  "Distributed processing without data centralization") >>
      [] level = "INTERNAL" ->
           << Recommendation("K_ANONYMITY", "MEDIUM",
                  "Effective anonymization for internal use"),
              Recommendation("TOKENIZATION", "MEDIUM",
                  "Replace sensitive values with non-sensitive tokens") >>
      [] OTHER ->
           << Recommendation("DATA_MASKING", "LOW",
                  "Basic protection for non-sensitive data") >>

\* the switch on fileAnalysis.fileType
FileTypeRecommendations(fileType, piiFields) ==
    CASE fileType = "csv" /\ Len(piiFields) > 3 ->
           << Recommendation("L_DIVERSITY", "MEDIUM",
                  "Enhance k-anonymity for tabular PII data") >>
      [] fileType = "image" ->
           << Recommendation("FEDERATED_LEARNING", "HIGH",
                  "Process images without sharing raw visual data") >>
      [] fileType = "document" ->
           << Recommendation("TOKENIZATION", "HIGH",
                  "Replace document entities with privacy-safe tokens") >>
      [] OTHER -> << >>

\* Array.prototype.slice(0, n)
Slice(s, n) == SubSeq(s, 1, Min(n, Len(s)))

\* a technique already in the list is not pushed again
RECURSIVE Deduplicate(_, _)
Deduplicate(recs, seen) ==
    IF recs = << >> THEN << >>
    ELSE IF Head(recs).technique \in seen THEN Deduplicate(Tail(recs), seen)
         ELSE <<Head(recs)>> \o Deduplicate(Tail(recs), seen \cup {Head(recs).technique})

\* faulty variant of recommendPrivacyTechniques: the list is deduplicated
recommendDeduplicated(fa, sa) ==
    Slice(Deduplicate(LevelRecommendations(sa.sensitivityLevel)
                        \o FileTypeRecommendations(fa.fileType, sa.piiFields), {}), 4)

\* faulty variant of recommendPrivacyTechniques: the csv entry is decided by the
\* number of columns of the artifact instead of the PII fields of the profile
recommendFromInsights(fa, sa) ==
    Slice(LevelRecommendations(sa.sensitivityLevel)
            \o FileTypeRecommendations(fa.fileType, Detected(fa, "detectedColumns")), 4)

recommendPrivacyTechniques(fa, sa) ==
    Slice(LevelRecommendations(sa.sensitivityLevel)
            \o FileTypeRecommendations(fa.fileType, sa.piiFields), 4)

(***************************************************************************)
(* calculateOverallScore and determineRiskLevel.                           *)
(***************************************************************************)
\* faulty variant of calculateOverallScore: the sensitivity score is not inverted
calculateOverallScoreNotInverted(m) ==
    LET keys == DOMAIN m.complianceScores
        nc == Cardinality(keys)
        cs == SumSeq([i \in 1..Len(FrameworkOrder) |->
                         IF FrameworkOrder[i] \in keys
                         THEN m.complianceScores[FrameworkOrder[i]].score ELSE 0])
        sensitivityScore == m.sensitivityAnalysis.sensitivityScore
        nt == Len(m.recommendedTechniques)
        ts == SumSeq([i \in 1..nt |->
                 privacyTechniques[m.recommendedTechniques[i].technique].effectivenessScore])
    IN Round(4 * cs * nt + 3 * sensitivityScore * nc * nt + 3 * ts * nc, 10 * nc * nt)

\* faulty variant of calculateOverallScore: a technique that is listed twice is
\* counted once in the technique average
calculateOverallScoreDistinct(m) ==
    LET keys == DOMAIN m.complianceScores
        nc == Cardinality(keys)
        cs == SumSeq([i \in 1..Len(FrameworkOrder) |->
                         IF FrameworkOrder[i] \in keys
                         THEN m.complianceScores[FrameworkOrder[i]].score ELSE 0])
        sensitivityScore == Max(0, 100 - m.sensitivityAnalysis.sensitivityScore)
        distinct == Deduplicate(m.recommendedTechniques, {})
        nt == Len(distinct)
        ts == SumSeq([i \in 1..nt |->
                 privacyTechniques[distinct[i].technique].effectivenessScore])
    IN Round(4 * cs * nt + 3 * sensitivityScore * nc * nt + 3 * ts * nc, 10 * nc * nt)

\* score = complianceAvg * 0.4 + sensitivityScore * 0.3 + techniqueAvg * 0.3 with
\* complianceAvg = cs / nc and techniqueAvg = ts / nt, divided by weightSum = 1
calculateOverallScore(m) ==
    LET keys == DOMAIN m.complianceScores
        nc == Cardinality(keys)
        compScores == [i \in 1..Len(FrameworkOrder) |->
                          IF FrameworkOrder[i] \in keys
                          THEN m.complianceScores[FrameworkOrder[i]].score ELSE 0]
        cs == SumSeq(compScores)
        sensitivityScore == Max(0, 100 - m.sensitivityAnalysis.sensitivityScore)
        nt == Len(m.recommendedTechniques)
        ts == SumSeq([i \in 1..nt |->
                 privacyTechniques[m.recommendedTechniques[i].technique].effectivenessScore])
    IN Round(4 * cs * nt + 3 * sensitivityScore * nc * nt + 3 * ts * nc, 10 * nc * nt)

\* faulty variant of determineRiskLevel: LOW begins at 80
determineRiskLevelLowAtEighty(overallScore) ==
    IF overallScore >= 80 THEN "LOW"
    ELSE IF overallScore >= 70 THEN "MEDIUM"
    ELSE IF overallScore >= 55 THEN "HIGH"
    ELSE "CRITICAL"

\* faulty variant of determineRiskLevel: the thresholds are exclusive
determineRiskLevelExclusive(overallScore) ==
    IF overallScore > 85 THEN "LOW"
    ELSE IF overallScore > 70 THEN "MEDIUM"
    ELSE IF overallScore > 55 THEN "HIGH"
    ELSE "CRITICAL"

determineRiskLevel(overallScore) ==
    IF overallScore >= 85 THEN "LOW"
    ELSE IF overallScore >= 70 THEN "MEDIUM"
    ELSE IF overallScore >= 55 THEN "HIGH"
    ELSE "CRITICAL"

(***************************************************************************)
(* generateRealTimeMetrics and generateExplanations.                        *)
(***************************************************************************)
\* the compliance scores in the order Object.values lists them
ComplianceScoreValues(complianceScores) ==
    [i \in 1..Len(FrameworkOrder) |-> complianceScores[FrameworkOrder[i]].score]

\* avgScore = sum / 4 compared with 85 and 70
getOverallComplianceStatus(complianceScores) ==
    LET sum == SumSeq(ComplianceScoreValues(complianceScores))
        n == Len(FrameworkOrder)
    IN IF sum >= 85 * n THEN "COMPLIANT"
       ELSE IF sum >= 70 * n THEN "NEEDS_ATTENTION"
       ELSE "NON_COMPLIANT"

calculateEncryptionStrength(m, r, i) ==
    LET hasHighSecurityTechniques ==
            \E j \in 1..Len(m.recommendedTechniques) :
                m.recommendedTechniques[j].technique
                    \in {"HOMOMORPHIC_ENCRYPTION", "SECURE_MULTIPARTY"}
    IN IF hasHighSecurityTechniques THEN getRandomNumber(384, 512, r, i)
       ELSE getRandomNumber(256, 384, r, i)

\* round(80 + 3 * techniques - sensitivityScore * 0.1) kept within 70..98
calculateAnonymizationLevel(m) ==
    Max(70, Min(98, Round(800 + 30 * Len(m.recommendedTechniques)
                              - m.sensitivityAnalysis.sensitivityScore, 10)))

calculateAuditScore(r, i) == getRandomNumber(85, 97, r, i)

\* draws: encryptionStrength at i, auditScore at i + 1
generateRealTimeMetrics(fa, m, r, i) ==
    [privacyScore |-> m.overallScore,
     riskLevel |-> m.riskLevel,
     piiFieldsDetected |-> Len(m.sensitivityAnalysis.piiFields),
     piiFieldsProtected |-> (Len(m.sensitivityAnalysis.piiFields) * 95) \div 100,
     complianceStatus |-> getOverallComplianceStatus(m.complianceScores),
     privacyTechniquesApplied |-> Len(m.recommendedTechniques),
     dataProcessingTime |-> IF "processingTime" \in DOMAIN fa THEN fa.processingTime
                            ELSE Undefined,
     encryptionStrength |-> calculateEncryptionStrength(m, r, i),
     anonymizationLevel |-> calculateAnonymizationLevel(m),
     auditScore |-> calculateAuditScore(r, i + 1)]

explainOverallScore(score) ==
    IF score >= 85 THEN "Excellent privacy protection with comprehensive safeguards"
    ELSE IF score >= 70 THEN "Good privacy protection with room for improvement"
    ELSE IF score >= 55 THEN "Moderate privacy protection, consider additional measures"
    ELSE "Privacy protection needs significant enhancement"

explainRiskLevel(riskLevel) ==
    CASE riskLevel = "LOW" ->
           "Minimal privacy risk with strong protective measures in place"
      [] riskLevel = "MEDIUM" ->
           "Manageable risk level, monitor and consider additional protections"
      [] riskLevel = "HIGH" ->
           "Elevated risk requires immediate attention and enhanced privacy measures"
      [] riskLevel = "CRITICAL" ->
           "Severe privacy risk demanding urgent comprehensive protection"
      [] OTHER -> Undefined

\* faulty variant of explainTopRecommendations: three entries are kept
explainTopRecommendationsThree(recommendations) ==
    LET top == Slice(recommendations, 3)
    IN [i \in 1..Len(top) |->
           [technique |-> top[i].technique,
            explanation |-> top[i].reason,
            effectiveness |-> privacyTechniques[top[i].technique].effectivenessScore]]

explainTopRecommendations(recommendations) ==
    LET top == Slice(recommendations, 2)
    IN [i \in 1..Len(top) |->
           [technique |-> top[i].technique,
            explanation |-> top[i].reason,
            effectiveness |-> privacyTechniques[top[i].technique].effectivenessScore]]

RECURSIVE NonCompliant(_, _)
NonCompliant(complianceScores, i) ==
    IF i > Len(FrameworkOrder) THEN << >>
    ELSE LET framework == FrameworkOrder[i]
             comp == complianceScores[framework]
             rest == NonCompliant(complianceScores, i + 1)
         IN IF comp.status # "COMPLIANT"
            THEN <<[framework |-> framework, score |-> comp.score,
                    status |-> comp.status]>> \o rest
            ELSE rest

explainComplianceStatus(complianceScores) ==
    LET nonCompliant == NonCompliant(complianceScores, 1)
        total == Cardinality(DOMAIN complianceScores)
    IN [compliantCount |-> total - Len(nonCompliant),
        totalFrameworks |-> total,
        needsAttention |-> nonCompliant]

generateExplanations(m) ==
    [overallScore |-> explainOverallScore(m.overallScore),
     riskLevel |-> explainRiskLevel(m.riskLevel),
     topRecommendations |-> explainTopRecommendations(m.recommendedTechniques),
     complianceStatus |-> explainComplianceStatus(m.complianceScores)]

(***************************************************************************)
(* getDefaultMetrics and assessPrivacy.                                    *)
(***************************************************************************)
getDefaultMetrics(message) ==
    [overallScore |-> 75,
     riskLevel |-> "MEDIUM",
     error |-> message,
     complianceScores |-> EmptyObject,
     sensitivityAnalysis |-> [piiFields |-> << >>, sensitivityLevel |-> "INTERNAL"],
     recommendedTechniques |-> << >>,
     realTimeMetrics |-> [privacyScore |-> 75, riskLevel |-> "MEDIUM",
                          piiFieldsDetected |-> 0, piiFieldsProtected |-> 0]]

\* the object literal assessPrivacy starts from
InitialMetrics ==
    [overallScore |-> 0, riskLevel |-> "UNKNOWN", complianceScores |-> EmptyObject,
     sensitivityAnalysis |-> EmptyObject, recommendedTechniques |-> << >>,
     privacyBreakdown |-> EmptyObject, realTimeMetrics |-> EmptyObject,
     explanations |-> EmptyObject]

\* error.message of the TypeError of undefined.toLowerCase()
ToLowerCaseError == "Cannot read properties of undefined (reading 'toLowerCase')"

\* error.message of the TypeError of step 6 when the engine has no method
\* generatePrivacyBreakdown
NotAFunctionError == "this.generatePrivacyBreakdown is not a function"

\* Step 6 calls this.generatePrivacyBreakdown, which the class body (lines 4 to 560)
\* does not define.  Where a definition is supplied from outside these files the
\* call returns the breakdown object, which nothing in the program reads; it is
\* kept opaque here.
generatePrivacyBreakdown(fa, m) == [fileType |-> fa.fileType]

\* number of Math.random draws of assessCompliance: a status draw and a score draw
\* for every requirement of every framework
ComplianceDraws ==
    SumSeq([i \in 1..Len(FrameworkOrder) |->
               2 * Len(complianceFrameworks[FrameworkOrder[i]].requirements)])

\* steps 1 to 5 of the try block; each takes the object `metrics` as the step
\* before left it
WithSensitivity(fa, r) ==
    [InitialMetrics EXCEPT !.sensitivityAnalysis = analyzeSensitivity(fa, r)]

WithCompliance(m, r, base) ==
    [m EXCEPT !.complianceScores = assessCompliance(m.sensitivityAnalysis, r, base)]

WithTechniques(fa, m) ==
    [m EXCEPT !.recommendedTechniques = recommendPrivacyTechniques(fa, m.sensitivityAnalysis)]

WithOverallScore(m) == [m EXCEPT !.overallScore = calculateOverallScore(m)]

WithRiskLevel(m) == [m EXCEPT !.riskLevel = determineRiskLevel(m.overallScore)]

StepsOneToFive(fa, r) ==
    WithRiskLevel(WithOverallScore(WithTechniques(fa,
        WithCompliance(WithSensitivity(fa, r), r, SensitivityDraws(fa)))))

\* steps 6 to 8
WithBreakdown(fa, m) == [m EXCEPT !.privacyBreakdown = generatePrivacyBreakdown(fa, m)]

WithRealTimeMetrics(fa, m, r, i) ==
    [m EXCEPT !.realTimeMetrics = generateRealTimeMetrics(fa, m, r, i)]

WithExplanations(m) == [m EXCEPT !.explanations = generateExplanations(m)]

StepsSixToEight(fa, m, r) ==
    WithExplanations(WithRealTimeMetrics(fa, WithBreakdown(fa, m), r,
                                         SensitivityDraws(fa) + ComplianceDraws))

\* `return metrics`
ReturnMetrics(m) == [metrics |-> m, returned |-> m]

\* [metrics |-> the local object when the call ends, returned |-> the value returned];
\* defined: whether this.generatePrivacyBreakdown is a function.  An exception in
\* the try block ends it, and the catch block returns getDefaultMetrics(error).
AfterStepFive(fa, m, r, defined) ==
    IF defined THEN ReturnMetrics(StepsSixToEight(fa, m, r))
    ELSE [metrics |-> m, returned |-> getDefaultMetrics(NotAFunctionError)]

assessPrivacy(fa, r, defined) ==
    IF SensitivityThrows(fa)
    THEN [metrics |-> InitialMetrics, returned |-> getDefaultMetrics(ToLowerCaseError)]
    ELSE AfterStepFive(fa, StepsOneToFive(fa, r), r, defined)

(***************************************************************************)
(* FileProcessor: getFileType, the signal extractor and analyzeFile.       *)
(* A file is [name, type, size]; name is "undefined" for an object without *)
(* a name.                                                                 *)
(***************************************************************************)
supportedTypes ==
    [csv |-> {"text/csv", "application/csv"},
     image |-> {"image/jpeg", "image/png", "image/gif", "image/webp"},
     document |-> {"application/pdf", "application/msword",
                   "application/vnd.openxmlformats-officedocument.wordprocessingml.document",
                   "text/plain"}]

\* the file names of the model and their extensions (all that endsWith inspects)
Extension ==
    [n \in {"data.csv", "photo.png", "report.pdf", "notes.txt", "tool.exe"} |->
        CASE n = "data.csv" -> ".csv"
          [] n = "photo.png" -> ".png"
          [] n = "report.pdf" -> ".pdf"
          [] n = "notes.txt" -> ".txt"
          [] OTHER -> ".exe"]

endsWith(name, suffix) == Extension[name] = suffix

\* file.name.endsWith(...) is evaluated on undefined: a TypeError
GetFileTypeThrows(file) ==
    /\ file.type \notin supportedTypes.csv
    /\ file.name = Undefined

getFileType(file) ==
    IF file.type \in supportedTypes.csv \/ endsWith(file.name, ".csv") THEN "csv"
    ELSE IF file.type \in supportedTypes.image THEN "image"
    ELSE IF file.type \in supportedTypes.document THEN "document"
    ELSE "unknown"

getRandomProcessingTime(r, i) == getRandomNumber(800, 3000, r, i)

getSensitiveFields(fileType, r, i) ==
    LET fields == CASE fileType = "csv" ->
                         <<"email", "phone", "ssn", "credit_card", "address">>
                    [] fileType = "image" ->
                         <<"faces", "license_plates", "documents", "locations">>
                    [] fileType = "document" ->
                         <<"names", "addresses", "phone_numbers", "financial_data">>
                    [] OTHER -> << >>
    IN Slice(fields, getRandomNumber(1, Len(fields), r, i))

getPrivacyTechniques(r, i) ==
    Slice(<<"Differential Privacy", "Homomorphic Encryption", "Federated Learning",
            "Secure Multi-party Computation", "Zero-knowledge Proofs", "Data Masking",
            "Tokenization">>,
          getRandomNumber(2, 4, r, i))

getRecommendations(fileType, r, i) ==
    LET recs == CASE fileType = "image" ->
                       <<"Apply face blurring for privacy protection",
                         "Remove EXIF metadata containing location data",
                         "Use edge detection instead of full images",
                         "Implement federated learning for model training">>
                  [] fileType = "document" ->
                       <<"Redact personally identifiable information",
                         "Apply named entity recognition for sensitive data",
                         "Use homomorphic encryption for text analysis",
                         "Implement secure document sharing protocols">>
                  [] OTHER ->
                       <<"Apply k-anonymity to demographic columns",
                         "Use differential privacy for numerical aggregations",
                         "Implement field-level encryption for PII",
                         "Consider data minimization techniques">>
    IN Slice(recs, getRandomNumber(2, Len(recs), r, i))

generateCSVColumns(r, i) ==
    Slice(<<"user_id", "timestamp", "transaction_amount", "category", "location",
            "customer_age", "product_name", "revenue", "email_hash",
            "session_duration", "conversion_rate">>,
          getRandomNumber(5, 10, r, i))

\* (Math.random() * 0.3 + 0.7).toFixed(2), in hundredths
RandomConfidence(r, i) == Round(70 * r.n + 30 * MathRandom(r, i), r.n)

\* draws: the number of objects at i, then one confidence per object
generateImageObjects(r, i) ==
    LET objects == Slice(<<"Person", "Vehicle", "Building", "Text", "Logo", "Product",
                           "Landscape", "Document", "Equipment">>,
                         getRandomNumber(2, 6, r, i))
    IN [j \in 1..Len(objects) |->
           [type |-> objects[j], confidence |-> RandomConfidence(r, i + j)]]

RECURSIVE PositiveCount(_)
PositiveCount(entities) ==
    IF entities = << >> THEN << >>
    ELSE (IF Head(entities).count > 0 THEN <<Head(entities)>> ELSE << >>)
         \o PositiveCount(Tail(entities))

\* draws: i .. i + 4
generateDocumentEntities(r, i) ==
    PositiveCount(<< [type |-> "PERSON", count |-> getRandomNumber(1, 20, r, i)],
                     [type |-> "ORGANIZATION", count |-> getRandomNumber(0, 10, r, i + 1)],
                     [type |-> "LOCATION", count |-> getRandomNumber(0, 15, r, i + 2)],
                     [type |-> "DATE", count |-> getRandomNumber(1, 30, r, i + 3)],
                     [type |-> "MONEY", count |-> getRandomNumber(0, 25, r, i + 4)] >>)

generateBusinessInsights(dataType, r, i) ==
    LET relevantInsights ==
            CASE dataType = "visual" ->
                   <<"Brand logo appears in 78% of analyzed images",
                     "Product placement opportunities identified",
                     "Customer engagement patterns in visual content",
                     "Quality metrics exceed industry standards">>
              [] dataType = "textual" ->
                   <<"Sentiment analysis shows 89% positive feedback",
                     "Key topics: customer service, product quality, pricing",
                     "Compliance requirements fully documented",
                     "Actionable insights extracted from unstructured data">>
              [] OTHER ->
                   <<"Revenue trending upward by 15% quarter-over-quarter",
                     "Customer acquisition cost decreased by 8%",
                     "High-value segments identified in demographics data",
                     "Seasonal patterns detected in transaction volumes">>
    IN Slice(relevantInsights, getRandomNumber(2, Len(relevantInsights), r, i))

\* draws: dataPoints at i, sensitiveFields, privacyTechniques, recommendations, then
\* the draws of the file type's own fields
generateInsights(fileType, r, i) ==
    LET insights == [dataPoints |-> getRandomNumber(100, 10000, r, i),
                     sensitiveFields |-> getSensitiveFields(fileType, r, i + 1),
                     privacyTechniques |-> getPrivacyTechniques(r, i + 2),
                     recommendations |-> getRecommendations(fileType, r, i + 3)]
    IN CASE fileType = "csv" ->
              insights @@
              [rowCount |-> getRandomNumber(50, 5000, r, i + 4),
               columnCount |-> getRandomNumber(5, 50, r, i + 5),
               detectedColumns |-> generateCSVColumns(r, i + 6),
               businessInsights |-> generateBusinessInsights("tabular", r, i + 7)]
         [] fileType = "image" ->
              LET detectedObjects == generateImageObjects(r, i + 6) IN
              insights @@
              [dimensions |-> [width |-> getRandomNumber(800, 4000, r, i + 4),
                               height |-> getRandomNumber(600, 3000, r, i + 5)],
               detectedObjects |-> detectedObjects,
               businessInsights |->
                   generateBusinessInsights("visual", r, i + 7 + Len(detectedObjects))]
         [] fileType = "document" ->
              insights @@
              [pageCount |-> getRandomNumber(1, 100, r, i + 4),
               wordCount |-> getRandomNumber(100, 10000, r, i + 5),
               detectedEntities |-> generateDocumentEntities(r, i + 6),
               businessInsights |-> generateBusinessInsights("textual", r, i + 11)]
         [] OTHER -> insights

\* Math.random draws generateInsights makes
InsightsDraws(fileType, r, i) ==
    CASE fileType = "csv" -> 8
      [] fileType = "image" -> 8 + Len(generateImageObjects(r, i + 6))
      [] fileType = "document" -> 12
      [] OTHER -> 4

\* dataRetention is in days, processingSpeed in hundredths of MB/s, memoryUsage in MB
generateMetrics(file, r, i) ==
    [encryptionStrength |-> getRandomNumber(256, 512, r, i),
     anonymizationLevel |-> getRandomNumber(80, 95, r, i + 1),
     dataRetention |-> getRandomNumber(7, 90, r, i + 2),
     complianceScore |-> getRandomNumber(85, 98, r, i + 3),
     processingSpeed |-> Round(file.size * 100,
                               1024 * 1024 * getRandomNumber(1, 5, r, i + 4)),
     memoryUsage |-> getRandomNumber(10, 100, r, i + 5)]

MetricsDraws == 6

\* the object literal baseAnalysis (uploadTime, a wall-clock reading nothing reads,
\* is left out); draws: processingTime first, then insights, then metrics
BaseAnalysis(file, r) ==
    LET fileType == getFileType(file) IN
    [fileName |-> file.name,
     fileSize |-> file.size,
     fileType |-> fileType,
     processingTime |-> getRandomProcessingTime(r, 0),
     insights |-> generateInsights(fileType, r, 1),
     metrics |-> generateMetrics(file, r, 1 + InsightsDraws(fileType, r, 1))]

BaseAnalysisDraws(file, r) ==
    1 + InsightsDraws(getFileType(file), r, 1) + MetricsDraws

\* Math.random draws of one assessPrivacy call
AssessPrivacyDraws(fa, defined) ==
    IF SensitivityThrows(fa) THEN 0
    ELSE SensitivityDraws(fa) + ComplianceDraws + (IF defined THEN 2 ELSE 0)

\* the object literal `analysis`
Analysis(baseAnalysis, privacyAssessment) ==
    baseAnalysis @@
    [privacyScore |-> privacyAssessment.overallScore,
     privacyMetrics |-> privacyAssessment,
     riskLevel |-> privacyAssessment.riskLevel,
     complianceScores |-> privacyAssessment.complianceScores,
     recommendedTechniques |-> privacyAssessment.recommendedTechniques,
     sensitivityAnalysis |-> privacyAssessment.sensitivityAnalysis]

AnalyzeFileResult(baseAnalysis, call, draws) ==
    [analysis |-> Analysis(baseAnalysis, call.returned), call |-> call, draws |-> draws]

AnalyzeBase(baseAnalysis, r, baseDraws, defined) ==
    AnalyzeFileResult(baseAnalysis,
                      assessPrivacy(baseAnalysis, Advance(r, baseDraws), defined),
                      baseDraws + AssessPrivacyDraws(baseAnalysis, defined))

\* [analysis |-> the object analyzeFile resolves to, call |-> the assessPrivacy call
\*  it made, draws |-> the Math.random draws it made]
analyzeFile(file, r, defined) ==
    AnalyzeBase(BaseAnalysis(file, r), r, BaseAnalysisDraws(file, r), defined)

(***************************************************************************)
(* Session aggregation: calculateAggregatedMetrics of PrivacyMetricsPanel  *)
(* and the summarizers of ApiService.  A result is                         *)
(* [fileId, fileName, status, analysis]; rs is the parameter `results`.    *)
(***************************************************************************)
\* x || default for a number x
OrElse(x, default) == IF x = 0 THEN default ELSE x

\* Array.from(set) after adding the elements of s to set: first occurrences, in order
RECURSIVE AddAll(_, _)
AddAll(set, s) ==
    IF s = << >> THEN set
    ELSE AddAll(IF Head(s) \in SeqRange(set) THEN set ELSE Append(set, Head(s)), Tail(s))

RECURSIVE AllTechniques(_, _)
AllTechniques(rs, set) ==
    IF rs = << >> THEN set
    ELSE LET recs == Head(rs).analysis.recommendedTechniques
         IN AllTechniques(Tail(rs),
                          AddAll(set, [i \in 1..Len(recs) |-> recs[i].technique]))

RECURSIVE AllPIIFields(_)
AllPIIFields(rs) ==
    IF rs = << >> THEN << >>
    ELSE Head(rs).analysis.sensitivityAnalysis.piiFields \o AllPIIFields(Tail(rs))

\* the results whose compliance scores have an entry for the framework
WithFramework(rs, framework) ==
    {i \in 1..Len(rs) : framework \in DOMAIN rs[i].analysis.complianceScores}

calculateAggregatedMetrics(rs) ==
    LET totalFiles == Len(rs)
        avgPrivacyScore ==
            Round(SumSeq([i \in 1..totalFiles |->
                             OrElse(rs[i].analysis.privacyScore, 0)]), totalFiles)
        allPIIFields == AllPIIFields(rs)
        seen == {f \in Frameworks : WithFramework(rs, f) # {}}
    IN [totalFiles |-> totalFiles,
        avgPrivacyScore |-> avgPrivacyScore,
        \* with no files avgPrivacyScore is NaN and both comparisons are false
        overallRisk |-> IF totalFiles = 0 THEN "HIGH"
                        ELSE IF avgPrivacyScore >= 85 THEN "LOW"
                        ELSE IF avgPrivacyScore >= 70 THEN "MEDIUM"
                        ELSE "HIGH",
        totalPIIFields |-> Len(allPIIFields),
        uniquePIITypes |-> Cardinality({allPIIFields[i].type : i \in 1..Len(allPIIFields)}),
        privacyTechniques |-> AllTechniques(rs, << >>),
        riskDistribution |->
            [level \in {"LOW", "MEDIUM", "HIGH", "CRITICAL"} |->
                Cardinality({i \in 1..totalFiles : rs[i].analysis.riskLevel = level})],
        complianceScores |->
            [f \in seen |->
                Round(SumSeq([i \in 1..totalFiles |->
                                 IF i \in WithFramework(rs, f)
                                 THEN rs[i].analysis.complianceScores[f].score ELSE 0]),
                      Cardinality(WithFramework(rs, f)))],
        encryptionStrength |->
            Round(SumSeq([i \in 1..totalFiles |->
                             OrElse(rs[i].analysis.metrics.encryptionStrength, 256)]),
                  totalFiles),
        anonymizationLevel |->
            Round(SumSeq([i \in 1..totalFiles |->
                             OrElse(rs[i].analysis.metrics.anonymizationLevel, 85)]),
                  totalFiles)]

calculateAveragePrivacyScore(rs) ==
    IF Len(rs) = 0 THEN 0
    ELSE Round(SumSeq([i \in 1..Len(rs) |->
                          OrElse(rs[i].analysis.privacyScore, 0)]), Len(rs))

calculateRiskLevel(rs) ==
    LET avgScore == calculateAveragePrivacyScore(rs)
    IN IF avgScore >= 85 THEN "Low"
       ELSE IF avgScore >= 70 THEN "Medium"
       ELSE "High"

\* ApiService.assessCompliance: sum / length >= 90, where 0 / 0 is NaN and
\* NaN >= 90 is false
assessComplianceOfResults(rs) ==
    LET sum == SumSeq([i \in 1..Len(rs) |->
                          OrElse(rs[i].analysis.metrics.complianceScore, 85)])
    IN IF Len(rs) # 0 /\ sum >= 90 * Len(rs) THEN "Compliant"
       ELSE "Needs Review"

RECURSIVE getUniqueTechniques(_, _)
getUniqueTechniques(rs, techniques) ==
    IF rs = << >> THEN techniques
    ELSE getUniqueTechniques(Tail(rs),
             AddAll(techniques, Head(rs).analysis.insights.privacyTechniques))

\* (sum + fileSize) || 0 at every step of the reduce
RECURSIVE TotalSize(_, _)
TotalSize(rs, sum) ==
    IF rs = << >> THEN sum
    ELSE TotalSize(Tail(rs), OrElse(sum + Head(rs).analysis.fileSize, 0))

\* totalDataProcessed is in hundredths of MB, averageProcessingTime in hundredths of
\* a second (both are toFixed(2) strings)
aggregateMetrics(rs) ==
    [totalDataProcessed |-> Round(TotalSize(rs, 0) * 100, 1024 * 1024),
     averageProcessingTime |->
         Round(SumSeq([i \in 1..Len(rs) |->
                          OrElse(rs[i].analysis.processingTime, 0)]) * 100,
               Len(rs) * 1000),
     privacyTechniquesApplied |-> getUniqueTechniques(rs, << >>),
     dataPointsAnalyzed |->
         SumSeq([i \in 1..Len(rs) |->
                    OrElse(rs[i].analysis.insights.dataPoints, 0)])]

\* the overview and the metrics getPrivacyDashboard computes from the results
OverviewOf(rs) ==
    [totalFiles |-> Len(rs),
     averagePrivacyScore |-> calculateAveragePrivacyScore(rs),
     riskLevel |-> calculateRiskLevel(rs),
     complianceStatus |-> assessComplianceOfResults(rs),
     metrics |-> aggregateMetrics(rs)]

(***************************************************************************)
(* Inputs.                                                                 *)
(***************************************************************************)
SeqsUpTo(S, n) == UNION {[1..k -> S] : k \in 0..n}
Repeats(S, n) == {[i \in 1..k |-> x] : x \in S, k \in 1..n}
Signals(S) == SeqsUpTo(S, MaxSignals) \cup Repeats(S, MaxRepeat)

ColumnNames ==
    {"ssn", "email", "notes", "user_id", "medical", "salary", "Name",
     "email_address", "phone_age", "tax_id_mail"}

DetectedObjects ==
    {[type |-> t, confidence |-> 85] :
        t \in {"Person", "Vehicle", "Building", "Text", "Document", "Logo", "Medical",
                Undefined}}

DetectedEntities ==
    {[type |-> t, count |-> 2] :
        t \in {"PERSON", "ORGANIZATION", "LOCATION", "DATE", "MONEY", "MEDICAL", Undefined}}

\* the column lists of a customer table and of a table with one unmatched column
ScenarioColumns == {<<"ssn", "email", "notes">>, <<"Name", "email", "salary", "medical">>}

FileAnalyses ==
    {[fileType |-> "csv", insights |-> [detectedColumns |-> s]] : s \in Signals(ColumnNames)}
    \cup {[fileType |-> "csv", insights |-> [detectedColumns |-> s]] : s \in ScenarioColumns}
    \cup {[fileType |-> "image", insights |-> [detectedObjects |-> s]] :
             s \in Signals(DetectedObjects)}
    \cup {[fileType |-> "document", insights |-> [detectedEntities |-> s]] :
             s \in Signals(DetectedEntities)}
    \cup {[fileType |-> t, insights |-> i] :
             t \in {"csv", "image", "document", "unknown", Undefined},
             i \in {EmptyObject}}
    \cup {[fileType |-> t, insights |-> [detectedColumns |-> <<"ssn", "email">>]] :
             t \in {"unknown", Undefined}}

maxFileSize == 100 * 1024 * 1024
maxFiles == 10

\* files as the browser hands them over, and an object without a name
SampleFiles ==
    {[name |-> "data.csv", type |-> "text/csv", size |-> 1024 * 1024],
     [name |-> "photo.png", type |-> "image/png", size |-> 512 * 1024],
     [name |-> "report.pdf", type |-> "application/pdf", size |-> 3 * 1024 * 1024],
     [name |-> "notes.txt", type |-> "", size |-> 2048],
     [name |-> "tool.exe", type |-> "application/octet-stream", size |-> 4096],
     [name |-> Undefined, type |-> "image/png", size |-> 1024],
     [name |-> "data.csv", type |-> "text/csv", size |-> 200 * 1024 * 1024]}

\* a list of one file more than validateFiles allows
TooManyFiles ==
    [i \in 1..(maxFiles + 1) |->
        [name |-> "data.csv", type |-> "text/csv", size |-> 1024 * 1024]]

Batches == SeqsUpTo(SampleFiles, MaxFiles) \cup {TooManyFiles}

RandomStates == {[k |-> k, n |-> RandomLevels] : k \in 0..(RandomLevels - 1)}

(***************************************************************************)
(* One call of privacyMetricsEngine.assessPrivacy.                         *)
(***************************************************************************)
\* a session id generateSessionId never makes
UnknownSession == <<"opal", -1>>

\* no getPrivacyDashboard or getBusinessReport call has been made
NoReport == [call |-> "none", sessionId |-> UnknownSession, thrown |-> ""]

\* null in a React state: the empty tuple; a value v that is not null is held as <<v>>
Null == << >>

\* the initial state of useFileUpload, which reset() restores
IdleUpload ==
    [uploadStatus |-> "idle", progress |-> 0, results |-> Null, error |-> Null,
     sessionId |-> Null]

\* the initial state of usePrivacyDashboard
NoDashboard == [dashboardData |-> Null, loading |-> FALSE, error |-> Null]

\* the dependencies of the effect of App that can change
EffectDeps(u, d) ==
    <<u.uploadStatus = "completed", u.sessionId, u.results, d.dashboardData>>

\* the initial state of App; privacyMetrics is Null for the initial object and
\* <<id>> once it was computed from the results of session id
InitialApp ==
    [analysisComplete |-> FALSE, privacyMetrics |-> Null,
     effectDeps |-> EffectDeps(IdleUpload, NoDashboard)]

NoUI ==
    /\ upload = IdleUpload
    /\ dashboard = NoDashboard
    /\ app = InitialApp
    /\ inflight = [uploads |-> {}, loads |-> {}, calls |-> 0]
    /\ prioritizeDefined = FALSE

NoSession ==
    /\ report = NoReport
    /\ files = << >>
    /\ results = << >>
    /\ processingQueue = EmptyObject
    /\ response = Undefined
    /\ panelMetrics = Undefined
    /\ overview = Undefined

Init ==
    /\ engine = constructor
    /\ fileAnalysis \in FileAnalyses
    /\ rng \in RandomStates
    /\ pc = "start"
    /\ metrics = EmptyObject
    /\ returned = Undefined
    /\ breakdownDefined \in BOOLEAN
    /\ NoSession
    /\ NoUI

AssessPrivacy ==
    /\ pc = "start"
    /\ LET call == assessPrivacy(fileAnalysis, rng, breakdownDefined)
       IN /\ metrics' = call.metrics
          /\ returned' = call.returned
    /\ pc' = "returned"
    /\ UNCHANGED <<fileAnalysis, rng, breakdownDefined, engine>>
    /\ UNCHANGED sessionVars
    /\ UNCHANGED uiVars

Next == AssessPrivacy

Spec == Init /\ [][Next]_vars

(***************************************************************************)
(* ApiService.uploadFiles with processWithProgress, and the effect of       *)
(* PrivacyMetricsPanel that summarizes the results of a finished upload.   *)
(* The start and completion times of a session are left out.               *)
(***************************************************************************)

isSupportedFileType(file) ==
    \/ file.type \in {"text/csv", "application/csv",
                      "image/jpeg", "image/png", "image/gif", "image/webp",
                      "application/pdf", "application/msword", "text/plain",
                      "application/vnd.openxmlformats-officedocument.wordprocessingml.document"}
    \/ endsWith(file.name, ".csv")
    \/ endsWith(file.name, ".txt")

\* the errors the forEach of validateFiles pushes
RECURSIVE FileErrors(_)
FileErrors(fs) ==
    IF fs = << >> THEN << >>
    ELSE LET file == Head(fs) IN
         (IF file.size > maxFileSize
          THEN <<"File " \o file.name \o " exceeds 100MB limit">> ELSE << >>)
         \o (IF ~isSupportedFileType(file)
             THEN <<"File type not supported: " \o file.name>> ELSE << >>)
         \o FileErrors(Tail(fs))

validateFiles(fs) ==
    LET errors == (IF Len(fs) = 0 THEN <<"No files selected">> ELSE << >>)
                  \o (IF Len(fs) > maxFiles THEN <<"Maximum 10 files allowed">> ELSE << >>)
                  \o FileErrors(fs)
    IN [valid |-> Len(errors) = 0, errors |-> errors]

\* Array.prototype.join(', ')
RECURSIVE Join(_)
Join(s) ==
    IF s = << >> THEN ""
    ELSE IF Len(s) = 1 THEN s[1]
    ELSE s[1] \o ", " \o Join(Tail(s))

FileNamesOf(fs) == [i \in 1..Len(fs) |-> fs[i].name]

\* 'opal_' + Date.now() + '_' + a string made from one Math.random draw
generateSessionId(r) == <<"opal", MathRandom(r, 0)>>

\* 'file_' + Date.now() + '_' + a string made from one Math.random draw; the time is
\* represented by the number of files processed before
generateFileId(r, index) == <<"file", index, MathRandom(r, 0)>>

\* the id of the session uploadFiles is processing
sessionId == CHOOSE id \in DOMAIN processingQueue : TRUE

\* error.message of the TypeError of undefined.endsWith(...)
EndsWithError == "Cannot read properties of undefined (reading 'endsWith')"

\* faulty variant of UploadFiles: the session is registered before the validation
UploadFilesRegisteringFirst ==
    /\ pc = "idle"
    /\ processingQueue' =
          (generateSessionId(rng) :>
              [status |-> "processing", files |-> FileNamesOf(files), progress |-> 0])
    /\ rng' = Advance(rng, 1)
    /\ LET validation == validateFiles(files) IN
       IF ~validation.valid
       THEN /\ response' = [thrown |-> "Upload failed: " \o Join(validation.errors)]
            /\ pc' = "rejected"
       ELSE /\ pc' = "processing"
            /\ UNCHANGED response
    /\ UNCHANGED <<files, results, panelMetrics, overview,
                   breakdownDefined, engine, report>>
    /\ UNCHANGED engineVars
    /\ UNCHANGED uiVars

\* uploadFiles up to the first await: validation, then the session is registered
UploadFiles ==
    /\ pc = "idle"
    /\ LET validation == validateFiles(files) IN
       IF ~validation.valid
       THEN /\ response' = [thrown |-> "Upload failed: " \o Join(validation.errors)]
            /\ pc' = "rejected"
            /\ UNCHANGED <<processingQueue, rng>>
       ELSE /\ processingQueue' =
                  (generateSessionId(rng) :>
                      [status |-> "processing", files |-> FileNamesOf(files), progress |-> 0])
            /\ rng' = Advance(rng, 1)
            /\ pc' = "processing"
            /\ UNCHANGED response
    /\ UNCHANGED <<files, results, panelMetrics, overview,
                   breakdownDefined, engine, report>>
    /\ UNCHANGED engineVars
    /\ UNCHANGED uiVars

\* processWithProgress, an iteration up to its await: the progress before the file
BeginFile ==
    /\ pc = "processing"
    /\ Len(results) < Len(files)
    /\ processingQueue' =
          [processingQueue EXCEPT ![sessionId].progress =
              Round((2 * Len(results) + 1) * 100, 2 * Len(files))]
    /\ pc' = "analyzing"
    /\ UNCHANGED <<files, results, response, panelMetrics, overview, rng,
                   breakdownDefined, engine, report>>
    /\ UNCHANGED engineVars
    /\ UNCHANGED uiVars

\* the effect of the rest of an iteration, analyzeFile having resolved to done
PushResult(file, done) ==
    /\ results' = Append(results,
           [fileId |-> generateFileId(Advance(rng, done.draws), Len(results)),
            fileName |-> file.name,
            status |-> "processed",
            analysis |-> done.analysis])
    /\ rng' = Advance(rng, done.draws + 1)
    /\ fileAnalysis' = [f \in DOMAIN done.analysis \ {"privacyScore", "privacyMetrics",
                            "riskLevel", "complianceScores", "recommendedTechniques",
                            "sensitivityAnalysis"} |-> done.analysis[f]]
    /\ metrics' = done.call.metrics
    /\ returned' = done.call.returned

\* faulty variant of FinishFile: the assessment lowers, in the table of the engine,
\* the effectiveness of DATA_MASKING by one
FinishFileWritingTable ==
    /\ pc = "analyzing"
    /\ ~GetFileTypeThrows(files[Len(results) + 1])
    /\ PushResult(files[Len(results) + 1],
                  analyzeFile(files[Len(results) + 1], rng, breakdownDefined))
    /\ processingQueue' =
          [processingQueue EXCEPT ![sessionId].progress =
              Round((Len(results) + 1) * 100, Len(files))]
    /\ engine' = [engine EXCEPT !.privacyTechniques.DATA_MASKING.effectivenessScore = @ - 1]
    /\ pc' = "processing"
    /\ UNCHANGED <<files, response, panelMetrics, overview, breakdownDefined, report>>
    /\ UNCHANGED uiVars

\* processWithProgress, the rest of the iteration: analyzeFile resolved
FinishFile ==
    /\ pc = "analyzing"
    /\ ~GetFileTypeThrows(files[Len(results) + 1])
    /\ PushResult(files[Len(results) + 1],
                  analyzeFile(files[Len(results) + 1], rng, breakdownDefined))
    /\ processingQueue' =
          [processingQueue EXCEPT ![sessionId].progress =
              Round((Len(results) + 1) * 100, Len(files))]
    /\ pc' = "processing"
    /\ UNCHANGED <<files, response, panelMetrics, overview, breakdownDefined, engine,
                   report>>
    /\ UNCHANGED uiVars

\* faulty variant of FailUpload: the error record keeps the progress reached
FailUploadKeepingProgress ==
    /\ pc = "analyzing"
    /\ GetFileTypeThrows(files[Len(results) + 1])
    /\ processingQueue' =
          (sessionId :> [status |-> "error", error |-> EndsWithError,
                         progress |-> processingQueue[sessionId].progress])
    /\ response' = [thrown |-> EndsWithError]
    /\ pc' = "error"
    /\ UNCHANGED <<files, results, panelMetrics, overview, rng,
                   breakdownDefined, engine, report>>
    /\ UNCHANGED engineVars
    /\ UNCHANGED uiVars

\* the faulty variant of FailUpload keeps the results of the files already analysed
\* in the session
FailUploadKeepingResults ==
    /\ pc = "analyzing"
    /\ GetFileTypeThrows(files[Len(results) + 1])
    /\ processingQueue' =
          (sessionId :> [status |-> "error", error |-> EndsWithError, progress |-> 0,
                         results |-> results])
    /\ response' = [thrown |-> EndsWithError]
    /\ pc' = "error"
    /\ UNCHANGED <<files, results, panelMetrics, overview, rng,
                   breakdownDefined, engine, report>>
    /\ UNCHANGED engineVars
    /\ UNCHANGED uiVars

\* analyzeFile rejected: processWithProgress rejects and the catch of uploadFiles
\* replaces the session and rethrows
FailUpload ==
    /\ pc = "analyzing"
    /\ GetFileTypeThrows(files[Len(results) + 1])
    /\ processingQueue' =
          (sessionId :> [status |-> "error", error |-> EndsWithError, progress |-> 0])
    /\ response' = [thrown |-> EndsWithError]
    /\ pc' = "error"
    /\ UNCHANGED <<files, results, panelMetrics, overview, rng,
                   breakdownDefined, engine, report>>
    /\ UNCHANGED engineVars
    /\ UNCHANGED uiVars

\* the loop of processWithProgress is over: the session is completed
CompleteUpload ==
    /\ pc = "processing"
    /\ Len(results) = Len(files)
    /\ processingQueue' =
          (sessionId :> [status |-> "completed", files |-> FileNamesOf(files),
                         progress |-> 100, results |-> results])
    /\ response' = [sessionId |-> sessionId, status |-> "success", results |-> results]
    /\ pc' = "completed"
    /\ UNCHANGED <<files, results, panelMetrics, overview, rng,
                   breakdownDefined, engine, report>>
    /\ UNCHANGED engineVars
    /\ UNCHANGED uiVars

\* the effect of PrivacyMetricsPanel on the results of the upload
ShowMetrics ==
    /\ pc = "completed"
    /\ Len(response.results) > 0
    /\ panelMetrics' = calculateAggregatedMetrics(response.results)
    /\ pc' = "displayed"
    /\ UNCHANGED <<files, results, processingQueue, response, overview, rng,
                   breakdownDefined, engine, report>>
    /\ UNCHANGED engineVars
    /\ UNCHANGED uiVars

\* the negation of the guard !session || !session.results
HasResults(id) ==
    /\ id \in DOMAIN processingQueue
    /\ "results" \in DOMAIN processingQueue[id]

\* getPrivacyDashboard: the guard, and past it the call of prioritizeRecommendations,
\* which no file defines, while the object to return is built
getPrivacyDashboard(id) ==
    IF ~HasResults(id) THEN [thrown |-> "No analysis results found"]
    ELSE [thrown |-> "this.prioritizeRecommendations is not a function"]

\* getBusinessReport: the guard, and past it the call of generateExecutiveSummary,
\* which no file defines
getBusinessReport(id) ==
    IF ~HasResults(id) THEN [thrown |-> "No analysis results found"]
    ELSE [thrown |-> "this.generateExecutiveSummary is not a function"]

\* a call of getPrivacyDashboard, at any time, for the session or for an unknown id
GetPrivacyDashboard ==
    /\ \E id \in DOMAIN processingQueue \cup {UnknownSession} :
          report' = [call |-> "getPrivacyDashboard", sessionId |-> id,
                     thrown |-> getPrivacyDashboard(id).thrown]
    /\ UNCHANGED <<rng, pc, breakdownDefined, files, results, processingQueue, response,
                   panelMetrics, overview, engine>>
    /\ UNCHANGED engineVars
    /\ UNCHANGED uiVars

\* a call of getBusinessReport, at any time, for the session or for an unknown id
GetBusinessReport ==
    /\ \E id \in DOMAIN processingQueue \cup {UnknownSession} :
          report' = [call |-> "getBusinessReport", sessionId |-> id,
                     thrown |-> getBusinessReport(id).thrown]
    /\ UNCHANGED <<rng, pc, breakdownDefined, files, results, processingQueue, response,
                   panelMetrics, overview, engine>>
    /\ UNCHANGED engineVars
    /\ UNCHANGED uiVars

InitBatch ==
    /\ engine = constructor
    /\ report = NoReport
    /\ files \in Batches
    /\ rng \in RandomStates
    /\ breakdownDefined \in BOOLEAN
    /\ pc = "idle"
    /\ results = << >>
    /\ processingQueue = EmptyObject
    /\ response = Undefined
    /\ panelMetrics = Undefined
    /\ overview = Undefined
    /\ fileAnalysis = Undefined
    /\ metrics = EmptyObject
    /\ returned = Undefined
    /\ NoUI

NextBatch ==
    \/ UploadFiles
    \/ BeginFile
    \/ FinishFile
    \/ FailUpload
    \/ CompleteUpload
    \/ ShowMetrics
    \/ GetPrivacyDashboard
    \/ GetBusinessReport

SpecBatch == InitBatch /\ [][NextBatch]_vars

(***************************************************************************)
(* The summarizers applied to a list of results.                           *)
(***************************************************************************)
\* the results processWithProgress makes of the files it can analyse
SampleResults(defined) ==
    {[fileId |-> generateFileId(r, 0), fileName |-> f.name, status |-> "processed",
      analysis |-> analyzeFile(f, r, defined).analysis] :
        f \in {file \in SampleFiles :
                  validateFiles(<<file>>).valid /\ ~GetFileTypeThrows(file)},
        r \in RandomStates}

ResultLists(defined) == SeqsUpTo(SampleResults(defined), MaxFiles)

InitSummarize ==
    /\ engine = constructor
    /\ report = NoReport
    /\ breakdownDefined \in BOOLEAN
    /\ results \in ResultLists(breakdownDefined)
    /\ pc = "summarize"
    /\ files = << >>
    /\ rng \in {[k |-> 0, n |-> RandomLevels]}
    /\ processingQueue = EmptyObject
    /\ response = Undefined
    /\ panelMetrics = Undefined
    /\ overview = Undefined
    /\ fileAnalysis = Undefined
    /\ metrics = EmptyObject
    /\ returned = Undefined
    /\ NoUI

\* calculateAggregatedMetrics and the summarizers of ApiService applied to results
Summarize ==
    /\ pc = "summarize"
    /\ panelMetrics' = calculateAggregatedMetrics(results)
    /\ overview' = OverviewOf(results)
    /\ pc' = "summarized"
    /\ UNCHANGED <<files, results, processingQueue, response, rng,
                   breakdownDefined, engine, report>>
    /\ UNCHANGED engineVars
    /\ UNCHANGED uiVars

NextSummarize == Summarize

SpecSummarize == InitSummarize /\ [][NextSummarize]_vars

(***************************************************************************)
(* calculateOverallScore applied to a metrics object, the one with an      *)
(* empty recommendation list included.                                     *)
(***************************************************************************)
\* metrics objects as they are after step 3: every framework with the same score,
\* a sensitivity score, and a list of at most MaxTechniques recommendations
ScoreInputs ==
    {[InitialMetrics EXCEPT
         !.complianceScores = [f \in Frameworks |-> [score |-> c]],
         !.sensitivityAnalysis = [sensitivityScore |-> s],
         !.recommendedTechniques = recs] :
        c \in {60, 75, 85, 98},
        s \in {0, 20, 65, 100},
        recs \in SeqsUpTo({Recommendation(technique, "HIGH", "") :
                               technique \in {"DATA_MASKING", "K_ANONYMITY",
                                              "FEDERATED_LEARNING",
                                              "HOMOMORPHIC_ENCRYPTION"}},
                          MaxTechniques)}

InitScore ==
    /\ engine = constructor
    /\ metrics \in ScoreInputs
    /\ pc = "score"
    /\ fileAnalysis = Undefined
    /\ returned = Undefined
    /\ rng \in {[k |-> 0, n |-> RandomLevels]}
    /\ breakdownDefined = FALSE
    /\ NoSession
    /\ NoUI

\* step 4 of assessPrivacy alone
CalculateOverallScore ==
    /\ pc = "score"
    /\ metrics' = WithOverallScore(metrics)
    /\ pc' = "scored"
    /\ UNCHANGED <<fileAnalysis, returned, rng, breakdownDefined, engine>>
    /\ UNCHANGED sessionVars
    /\ UNCHANGED uiVars

NextScore == CalculateOverallScore

SpecScore == InitScore /\ [][NextScore]_vars

(***************************************************************************)
(* The component App with the hooks useFileUpload and usePrivacyDashboard.  *)
(* A handler runs to its end, and React renders once after it; an await    *)
(* leaves a promise in `inflight`, settled by a later step.  Of uploadFiles *)
(* of ApiService only the session store and the outcome are kept here.     *)
(***************************************************************************)
\* the lists of files a user selects in one go
SelectableFiles ==
    {<<[name |-> "data.csv", type |-> "text/csv", size |-> 1024 * 1024]>>,
     <<[name |-> Undefined, type |-> "image/png", size |-> 1024]>>,
     <<[name |-> "tool.exe", type |-> "application/octet-stream", size |-> 4096]>>}

InitUI ==
    /\ engine = constructor
    /\ report = NoReport
    /\ fileAnalysis = Undefined
    /\ metrics = EmptyObject
    /\ returned = Undefined
    /\ breakdownDefined = FALSE
    /\ rng \in {[k |-> 0, n |-> RandomLevels]}
    /\ pc = "mounted"
    /\ files = << >>
    /\ results = << >>
    /\ processingQueue = EmptyObject
    /\ response = Undefined
    /\ panelMetrics = Undefined
    /\ overview = Undefined
    /\ upload = IdleUpload
    /\ dashboard = NoDashboard
    /\ app = InitialApp
    /\ inflight = [uploads |-> {}, loads |-> {}, calls |-> 0]
    /\ prioritizeDefined \in BOOLEAN

\* handleFileUpload: the files selected are appended to the state `files`
HandleFileUpload ==
    /\ \E uploadedFiles \in SelectableFiles :
          /\ Len(files) + Len(uploadedFiles) <= MaxFiles
          /\ files' = files \o uploadedFiles
    /\ UNCHANGED <<upload, dashboard, app, inflight, prioritizeDefined, processingQueue,
                   rng, pc, results, response, panelMetrics, overview, breakdownDefined,
                   engine, report>>
    /\ UNCHANGED engineVars

\* the promise of apiService.uploadFiles(files): rejected by the validation, or a
\* session registered and the outcome processWithProgress will have
UploadCall(fs, r) ==
    IF ~validateFiles(fs).valid
    THEN [sessionId |-> Null,
          thrown |-> <<"Upload failed: " \o Join(validateFiles(fs).errors)>>,
          files |-> FileNamesOf(fs)]
    ELSE [sessionId |-> <<generateSessionId(r)>>,
          thrown |-> IF \E i \in 1..Len(fs) : GetFileTypeThrows(fs[i])
                     THEN <<EndsWithError>> ELSE Null,
          files |-> FileNamesOf(fs)]

\* handleAnalyze by the Analyze button (disabled without files and while uploading):
\* uploadFiles of the hook up to its await, with uploadFiles of ApiService up to its
\* await
HandleAnalyze ==
    /\ Len(files) # 0
    /\ upload.uploadStatus \notin {"uploading", "processing"}
    /\ inflight.calls < MaxUploads
    /\ upload' = [upload EXCEPT !.uploadStatus = "uploading", !.progress = 0,
                                !.error = Null, !.results = Null]
    /\ inflight' = [inflight EXCEPT !.uploads = @ \cup {UploadCall(files, rng)},
                                    !.calls = @ + 1]
    /\ IF validateFiles(files).valid
       THEN /\ processingQueue' =
                  (generateSessionId(rng) :>
                      [status |-> "processing", files |-> FileNamesOf(files),
                       progress |-> 0]) @@ processingQueue
            /\ rng' = Advance(rng, 1)
       ELSE UNCHANGED <<processingQueue, rng>>
    /\ UNCHANGED <<files, dashboard, app, prioritizeDefined, pc, results, response,
                   panelMetrics, overview, breakdownDefined, engine, report>>
    /\ UNCHANGED engineVars

\* the results of a call that resolves (the analyses are left out)
ResultsOf(call) ==
    [i \in 1..Len(call.files) |-> [fileName |-> call.files[i], status |-> "processed"]]

\* the session store when the call settles
SettledQueue(call) ==
    IF call.sessionId = Null THEN processingQueue
    ELSE IF call.thrown = Null
    THEN [processingQueue EXCEPT ![call.sessionId[1]] =
             [status |-> "completed", files |-> call.files, progress |-> 100,
              results |-> ResultsOf(call)]]
    ELSE [processingQueue EXCEPT ![call.sessionId[1]] =
             [status |-> "error", error |-> call.thrown[1], progress |-> 0]]

\* an uploadFiles promise settles and uploadFiles of the hook runs on from its await
UploadSettled ==
    /\ \E call \in inflight.uploads :
          /\ processingQueue' = SettledQueue(call)
          /\ upload' =
                IF call.thrown = Null
                THEN [upload EXCEPT !.sessionId = call.sessionId,
                                    !.results = <<ResultsOf(call)>>,
                                    !.uploadStatus = "completed", !.progress = 100]
                ELSE [upload EXCEPT !.error = call.thrown, !.uploadStatus = "error",
                                    !.progress = 0]
          /\ inflight' = [inflight EXCEPT !.uploads = @ \ {call}]
    /\ UNCHANGED <<files, dashboard, app, prioritizeDefined, rng, pc, results, response,
                   panelMetrics, overview, breakdownDefined, engine, report>>
    /\ UNCHANGED engineVars

\* reset of the hook, called on its own
Reset ==
    /\ upload' = IdleUpload
    /\ UNCHANGED <<files, dashboard, app, inflight, prioritizeDefined, processingQueue,
                   rng, pc, results, response, panelMetrics, overview, breakdownDefined,
                   engine, report>>
    /\ UNCHANGED engineVars

\* handleReset by the Reset button, which is rendered when isCompleted || error
HandleReset ==
    /\ upload.uploadStatus = "completed" \/ upload.error # Null
    /\ files' = << >>
    /\ app' = [app EXCEPT !.analysisComplete = FALSE, !.privacyMetrics = Null]
    /\ upload' = IdleUpload
    /\ UNCHANGED <<dashboard, inflight, prioritizeDefined, processingQueue,
                   rng, pc, results, response, panelMetrics, overview, breakdownDefined,
                   engine, report>>
    /\ UNCHANGED engineVars

\* the effect of App after a render that changed one of its dependencies, with
\* loadDashboard up to its await
LoadDashboardEffect ==
    /\ EffectDeps(upload, dashboard) # app.effectDeps
    /\ IF /\ upload.uploadStatus = "completed"
          /\ upload.sessionId # Null
          /\ dashboard.dashboardData = Null
       THEN /\ dashboard' = [dashboard EXCEPT !.loading = TRUE, !.error = Null]
            /\ inflight' = [inflight EXCEPT !.loads = @ \cup {upload.sessionId[1]}]
            /\ app' = [app EXCEPT
                          !.analysisComplete = TRUE,
                          !.privacyMetrics =
                              IF upload.results # Null /\ Len(upload.results[1]) > 0
                              THEN upload.sessionId ELSE @,
                          !.effectDeps = EffectDeps(upload, dashboard)]
       ELSE /\ app' = [app EXCEPT !.effectDeps = EffectDeps(upload, dashboard)]
            /\ UNCHANGED <<dashboard, inflight>>
    /\ UNCHANGED <<files, upload, prioritizeDefined, processingQueue,
                   rng, pc, results, response, panelMetrics, overview, breakdownDefined,
                   engine, report>>
    /\ UNCHANGED engineVars

\* What getPrivacyDashboard returns where prioritizeRecommendations, which no file
\* defines, is supplied: the overview of the results of the session.  `of` names the
\* session the data was built from; the object itself does not carry it.
DashboardData(id) ==
    [of |-> id, totalFiles |-> Len(processingQueue[id].results)]

\* a getPrivacyDashboard promise settles and loadDashboard runs on from its await
DashboardSettled ==
    /\ \E id \in inflight.loads :
          /\ dashboard' =
                IF prioritizeDefined /\ HasResults(id)
                THEN [dashboard EXCEPT !.dashboardData = <<DashboardData(id)>>,
                                       !.loading = FALSE]
                ELSE [dashboard EXCEPT !.error = <<getPrivacyDashboard(id).thrown>>,
                                       !.loading = FALSE]
          /\ inflight' = [inflight EXCEPT !.loads = @ \ {id}]
    /\ UNCHANGED <<files, upload, app, prioritizeDefined, processingQueue,
                   rng, pc, results, response, panelMetrics, overview, breakdownDefined,
                   engine, report>>
    /\ UNCHANGED engineVars

NextUI ==
    \/ HandleFileUpload
    \/ HandleAnalyze
    \/ UploadSettled
    \/ Reset
    \/ HandleReset
    \/ LoadDashboardEffect
    \/ DashboardSettled

SpecUI == InitUI /\ [][NextUI]_vars

(***************************************************************************)
(* Properties.                                                             *)
(***************************************************************************)
\* the signal list the extractor reported for the artifact's kind
SignalsOf(fa) ==
    CASE fa.fileType = "csv" -> Detected(fa, "detectedColumns")
      [] fa.fileType = "image" -> Detected(fa, "detectedObjects")
      [] fa.fileType = "document" -> Detected(fa, "detectedEntities")
      [] OTHER -> << >>

\* the call got past analyzeSensitivity, so metrics holds what steps 1 to 5 computed
Computed == pc = "returned" /\ metrics.sensitivityAnalysis # EmptyObject

\* the value returned is the fallback of the catch block
IsErrorResult(result) == "error" \in DOMAIN result

\* C1: an artifact of any kind, an unrecognized one included, whose signal list is
\* empty is assessed without an error, and the assessment returned has sensitivity
\* score 20 and level INTERNAL (never PUBLIC).
C1_EmptySignalsInternal ==
    (/\ pc = "returned"
     /\ fileAnalysis.fileType # Undefined
     /\ SignalsOf(fileAnalysis) = << >>) =>
        /\ ~IsErrorResult(returned)
        /\ returned.sensitivityAnalysis.sensitivityScore = 20
        /\ returned.sensitivityAnalysis.sensitivityLevel = "INTERNAL"

\* the level penalty as the specification states it
StatedLevelPenalty(level) ==
    IF level \in {"RESTRICTED", "TOP_SECRET"} THEN 15
    ELSE IF level = "CONFIDENTIAL" THEN 10
    ELSE 0

\* C2: every framework's score is the base 85 less 15 for RESTRICTED or TOP_SECRET,
\* 10 for CONFIDENTIAL and 0 otherwise (and less the PII and framework penalties),
\* clamped.
C2_LevelPenaltyTopSecret ==
    Computed =>
        \A f \in Frameworks :
            metrics.complianceScores[f].score =
                Max(60, Min(98,
                    85 - StatedLevelPenalty(metrics.sensitivityAnalysis.sensitivityLevel)
                       - PIIPenalty(Len(metrics.sensitivityAnalysis.piiFields))
                       - FrameworkPenalty(f, metrics.sensitivityAnalysis.piiFields)))

\* C3: every framework's score lies in 60..98 and its status is the threshold
\* function of that score: COMPLIANT iff score >= 85, NEEDS_ATTENTION iff
\* 70 <= score < 85, NON_COMPLIANT iff score < 70.
C3_ScoreClampedStatusByThreshold ==
    Computed =>
        \A f \in Frameworks :
            LET c == metrics.complianceScores[f] IN
            /\ c.score \in 60..98
            /\ c.status \in {"COMPLIANT", "NEEDS_ATTENTION", "NON_COMPLIANT"}
            /\ (c.status = "COMPLIANT") <=> (c.score >= 85)
            /\ (c.status = "NEEDS_ATTENTION") <=> (c.score >= 70 /\ c.score < 85)
            /\ (c.status = "NON_COMPLIANT") <=> (c.score < 70)

\* C3 witness: a framework whose unclamped score is below 60 is reported with 60
C3_Witness ==
    /\ Computed
    /\ \E f \in Frameworks :
          /\ RawComplianceScore(f, metrics.sensitivityAnalysis) < 60
          /\ metrics.complianceScores[f].score = 60
          /\ metrics.complianceScores[f].status = "NON_COMPLIANT"

\* the level table of the specification
StatedLevel(s) ==
    CASE s >= 85 -> "TOP_SECRET"
      [] s >= 70 /\ s < 85 -> "RESTRICTED"
      [] s >= 50 /\ s < 70 -> "CONFIDENTIAL"
      [] s >= 30 /\ s < 50 -> "INTERNAL"
      [] s < 30 -> "PUBLIC"

\* C4: for every score in 0..100 the level is TOP_SECRET from 85, RESTRICTED from 70,
\* CONFIDENTIAL from 50, INTERNAL from 30 and PUBLIC below, and the level of every
\* profile analyzeSensitivity builds is that function of the profile's score.
C4_LevelIsThresholdTable ==
    /\ \A s \in 0..100 : getSensitivityLevel(s) = StatedLevel(s)
    /\ Computed =>
          /\ metrics.sensitivityAnalysis.sensitivityScore \in 0..100
          /\ metrics.sensitivityAnalysis.sensitivityLevel =
                StatedLevel(metrics.sensitivityAnalysis.sensitivityScore)

\* C4 witness: a profile whose score is exactly the boundary 70, level RESTRICTED
C4_Witness ==
    /\ Computed
    /\ metrics.sensitivityAnalysis.sensitivityScore = 70
    /\ metrics.sensitivityAnalysis.sensitivityLevel = "RESTRICTED"

\* the artifact kind is missing or one of its signals has no type
Malformed(fa) ==
    \/ fa.fileType = Undefined
    \/ \E i \in 1..Len(Detected(fa, "detectedObjects")) :
          Detected(fa, "detectedObjects")[i].type = Undefined
    \/ \E i \in 1..Len(Detected(fa, "detectedEntities")) :
          Detected(fa, "detectedEntities")[i].type = Undefined

\* C8: the call signals an error exactly when the artifact kind is missing or a
\* signal is malformed; well-formed input, also with no signals, gives no error.
C8_ErrorIffMalformed ==
    pc = "returned" => (IsErrorResult(returned) <=> Malformed(fileAnalysis))

\* C9: every assessment returned holds exactly one compliance result for each of
\* GDPR, HIPAA, CCPA and SOX.
C9_FourFrameworksReturned ==
    pc = "returned" => DOMAIN returned.complianceScores = {"GDPR", "HIPAA", "CCPA", "SOX"}

\* the tier entries and the kind entry of the specification, as (technique, priority)
StatedTierEntries(level) ==
    CASE level \in {"TOP_SECRET", "RESTRICTED"} ->
           << <<"HOMOMORPHIC_ENCRYPTION", "HIGH">>, <<"SECURE_MULTIPARTY", "HIGH">> >>
      [] level = "CONFIDENTIAL" ->
           << <<"DIFFERENTIAL_PRIVACY", "HIGH">>, <<"FEDERATED_LEARNING", "MEDIUM">> >>
      [] level = "INTERNAL" ->
           << <<"K_ANONYMITY", "MEDIUM">>, <<"TOKENIZATION", "MEDIUM">> >>
      [] level = "PUBLIC" -> << <<"DATA_MASKING", "LOW">> >>

StatedKindEntries(fileType, piiCount) ==
    CASE fileType = "csv" /\ piiCount > 3 -> << <<"L_DIVERSITY", "MEDIUM">> >>
      [] fileType = "image" -> << <<"FEDERATED_LEARNING", "HIGH">> >>
      [] fileType = "document" -> << <<"TOKENIZATION", "HIGH">> >>
      [] OTHER -> << >>

\* C10: the recommendation list is the tier entries of the level followed by the
\* kind entry, in that order, not re-sorted and not deduplicated.
C10_TierThenKindInOrder ==
    Computed =>
        LET recs == metrics.recommendedTechniques IN
        [i \in 1..Len(recs) |-> <<recs[i].technique, recs[i].priority>>]
            = StatedTierEntries(metrics.sensitivityAnalysis.sensitivityLevel)
                \o StatedKindEntries(fileAnalysis.fileType,
                                     Len(metrics.sensitivityAnalysis.piiFields))

\* C10 witness: a CONFIDENTIAL image lists FEDERATED_LEARNING twice
C10_Witness ==
    /\ Computed
    /\ fileAnalysis.fileType = "image"
    /\ metrics.sensitivityAnalysis.sensitivityLevel = "CONFIDENTIAL"
    /\ Len(metrics.recommendedTechniques) = 3
    /\ metrics.recommendedTechniques[2].technique = "FEDERATED_LEARNING"
    /\ metrics.recommendedTechniques[3].technique = "FEDERATED_LEARNING"

\* the assessment of a result is the fallback of the catch block of assessPrivacy
FailedResult(result) == IsErrorResult(result.analysis.privacyMetrics)

\* the positions of the results whose assessment did not fail
Assessed(rs) == {i \in 1..Len(rs) : ~FailedResult(rs[i])}

\* C5: a failing artifact does not keep the other artifacts of its batch from being
\* assessed and summarized (the upload is not aborted while another file could be
\* analysed), an artifact whose assessment failed is not reported as processed, and
\* the average score of the summary is the mean over the artifacts whose assessment
\* did not fail, so a failed artifact's substitute score is no part of it.
C5_FailedArtifactExcluded ==
    /\ pc = "error" => \A i \in 1..Len(files) : GetFileTypeThrows(files[i])
    /\ pc = "displayed" =>
          /\ \A i \in 1..Len(results) :
                FailedResult(results[i]) => results[i].status # "processed"
          /\ Assessed(results) # {} =>
                panelMetrics.avgPrivacyScore =
                    Round(SumSeq([i \in 1..Len(results) |->
                                     IF i \in Assessed(results)
                                     THEN results[i].analysis.privacyScore ELSE 0]),
                          Cardinality(Assessed(results)))
          /\ Assessed(results) = {} => IsNaN(panelMetrics.avgPrivacyScore)

Permute(rs, p) == [i \in 1..Len(rs) |-> rs[p[i]]]

\* C6: the summary of a list of results is the same for every permutation of the
\* list, in every field, the list of techniques included.
C6_SummaryPermutationInvariant ==
    pc = "summarized" =>
        \A p \in Permutations(1..Len(results)) :
            /\ calculateAggregatedMetrics(Permute(results, p)) = panelMetrics
            /\ OverviewOf(Permute(results, p)) = overview

\* C7: summarizing the empty list fails with an EmptyBatch error, and no summary has
\* a field that is NaN.
C7_EmptyBatchFails ==
    pc = "summarized" =>
        /\ results = << >> =>
              /\ IsErrorResult(panelMetrics)
              /\ IsErrorResult(overview)
        /\ ~IsErrorResult(panelMetrics) =>
              /\ ~IsNaN(panelMetrics.avgPrivacyScore)
              /\ ~IsNaN(panelMetrics.encryptionStrength)
              /\ ~IsNaN(panelMetrics.anonymizationLevel)
        /\ ~IsErrorResult(overview) =>
              /\ ~IsNaN(overview.averagePrivacyScore)
              /\ ~IsNaN(overview.metrics.averageProcessingTime)

\* C11: the recommendation list has at most 4 entries, and a second call with the
\* same sensitivity profile and the same kind (an artifact that has nothing but
\* the kind in common) returns the identical list.
C11_AtMostFourAndReproducible ==
    Computed =>
        /\ Len(metrics.recommendedTechniques) <= 4
        /\ recommendPrivacyTechniques([fileType |-> fileAnalysis.fileType,
                                       insights |-> EmptyObject],
                                      metrics.sensitivityAnalysis)
              = metrics.recommendedTechniques

\* C11 witness: a csv profile with more than three PII fields, three entries
C11_Witness ==
    /\ Computed
    /\ fileAnalysis.fileType = "csv"
    /\ Len(metrics.sensitivityAnalysis.piiFields) > 3
    /\ Len(metrics.recommendedTechniques) = 3
    /\ metrics.recommendedTechniques[3].technique = "L_DIVERSITY"

\* the sum of the effectiveness of the entries of a list, one term for each entry
RECURSIVE StatedEffectivenessSum(_)
StatedEffectivenessSum(recs) ==
    IF recs = << >> THEN 0
    ELSE privacyTechniques[Head(recs).technique].effectivenessScore
            + StatedEffectivenessSum(Tail(recs))

\* 40 * n times the weighted sum 0.4 * mean of the four framework scores
\* + 0.3 * (100 - sensitivity score) + 0.3 * mean effectiveness of the n entries
StatedWeightedSum(m) ==
    LET n == Len(m.recommendedTechniques)
    IN 4 * n * (m.complianceScores["GDPR"].score + m.complianceScores["HIPAA"].score
                  + m.complianceScores["CCPA"].score + m.complianceScores["SOX"].score)
       + 12 * n * (100 - m.sensitivityAnalysis.sensitivityScore)
       + 12 * StatedEffectivenessSum(m.recommendedTechniques)

\* C12: the overall score is the weighted sum 0.4 * mean framework score
\* + 0.3 * (100 - sensitivity score) + 0.3 * mean effectiveness of the list entries
\* (a technique listed twice counts twice), rounded to the nearest integer, halves up.
C12_OverallScoreIsWeightedSum ==
    Computed =>
        LET n == Len(metrics.recommendedTechniques)
            w == StatedWeightedSum(metrics)
            k == metrics.overallScore
        IN /\ n > 0
           /\ 80 * n * k <= 2 * w + 40 * n
           /\ 2 * w + 40 * n < 80 * n * (k + 1)

\* C12 witness: a CONFIDENTIAL image, whose list holds FEDERATED_LEARNING twice
C12_Witness ==
    /\ Computed
    /\ fileAnalysis.fileType = "image"
    /\ metrics.sensitivityAnalysis.sensitivityLevel = "CONFIDENTIAL"
    /\ Len(metrics.recommendedTechniques) = 3
    /\ metrics.overallScore \in 0..100

\* C13: with an empty recommendation list the mean technique effectiveness counts
\* as 0 and the overall score is a number: the rounded value of 0.4 * mean
\* framework score + 0.3 * (100 - sensitivity score).
C13_EmptyListScoreDefined ==
    (pc = "scored" /\ metrics.recommendedTechniques = << >>) =>
        /\ ~IsNaN(metrics.overallScore)
        /\ metrics.overallScore \in 0..100
        /\ metrics.overallScore =
              Round(4 * (metrics.complianceScores["GDPR"].score
                           + metrics.complianceScores["HIPAA"].score
                           + metrics.complianceScores["CCPA"].score
                           + metrics.complianceScores["SOX"].score)
                      + 12 * (100 - metrics.sensitivityAnalysis.sensitivityScore), 40)

\* the risk tiers of the specification
StatedRiskLevel(score) ==
    CASE score >= 85 -> "LOW"
      [] score >= 70 /\ score < 85 -> "MEDIUM"
      [] score >= 55 /\ score < 70 -> "HIGH"
      [] score < 55 -> "CRITICAL"

\* C14: for every overall score the risk tier is LOW from 85, MEDIUM from 70, HIGH
\* from 55 and CRITICAL below, and the risk level of every assessment that did not
\* fail is that function of its overall score.
C14_RiskLevelIsThresholdTable ==
    /\ \A score \in 0..100 : determineRiskLevel(score) = StatedRiskLevel(score)
    /\ Computed => metrics.riskLevel = StatedRiskLevel(metrics.overallScore)
    /\ (pc = "returned" /\ ~IsErrorResult(returned)) =>
          returned.riskLevel = StatedRiskLevel(returned.overallScore)

\* C14 witness: an assessment that did not fail, with a score below 70 and risk HIGH
C14_Witness ==
    /\ pc = "returned"
    /\ ~IsErrorResult(returned)
    /\ returned.overallScore < 70
    /\ returned.riskLevel = "HIGH"

\* the overall score of the current metrics with the sensitivity score replaced
ScoreAtSensitivity(s) ==
    calculateOverallScore([metrics EXCEPT !.sensitivityAnalysis.sensitivityScore = s])

\* C15: with the compliance scores and the recommendation list of an assessment
\* held fixed, the overall score does not rise when the sensitivity score rises:
\* it is at least as high at s as at s + 1 for every s in 0..99, hence at s1 as at
\* s2 for all s1 <= s2 in 0..100.
C15_OverallScoreAntitone ==
    Computed =>
        LET score == [s \in 0..100 |-> ScoreAtSensitivity(s)]
        IN /\ \A s \in 0..99 : score[s] >= score[s + 1]
           /\ score[0] >= score[100]

\* C15 witness: an assessment whose overall score is strictly higher at sensitivity
\* 0 than at sensitivity 100
C15_Witness ==
    /\ Computed
    /\ ScoreAtSensitivity(0) > ScoreAtSensitivity(100)

\* n times (mean of the finding scores + 5 * number of PII findings), n the number
\* of findings
StatedScoreTimesN(dataTypes) ==
    SumSeq([i \in 1..Len(dataTypes) |-> dataTypes[i].sensitivityScore])
        + 5 * Cardinality({i \in 1..Len(dataTypes) : dataTypes[i].isPII}) * Len(dataTypes)

\* C16 as stated: for a non-empty finding list the sensitivity score is
\* clamp(mean + 5 * number of PII findings, 0, 100), with no rounding.
C16_ScoreIsClampedMean ==
    (Computed /\ metrics.sensitivityAnalysis.dataTypes # << >>) =>
        LET dataTypes == metrics.sensitivityAnalysis.dataTypes
            n == Len(dataTypes)
        IN n * metrics.sensitivityAnalysis.sensitivityScore
              = Max(0, Min(100 * n, StatedScoreTimesN(dataTypes)))

\* C16 amended: for a non-empty finding list the sensitivity score is
\* min(100, round(mean + 5 * number of PII findings)), halves rounded up, and so an
\* integer within 0..100.
C16_ScoreIsRoundedClampedMean ==
    (Computed /\ metrics.sensitivityAnalysis.dataTypes # << >>) =>
        LET dataTypes == metrics.sensitivityAnalysis.dataTypes
            n == Len(dataTypes)
            x == StatedScoreTimesN(dataTypes)
            score == metrics.sensitivityAnalysis.sensitivityScore
        IN /\ score \in 0..100
           /\ \/ score = 100 /\ 2 * x + n >= 200 * n
              \/ /\ 2 * n * score <= 2 * x + n
                 /\ 2 * x + n < 2 * n * (score + 1)

\* C16 witness: a profile whose mean finding score is no integer and whose score is
\* below the cap
C16_Witness ==
    /\ Computed
    /\ metrics.sensitivityAnalysis.dataTypes # << >>
    /\ StatedScoreTimesN(metrics.sensitivityAnalysis.dataTypes)
          % Len(metrics.sensitivityAnalysis.dataTypes) # 0
    /\ metrics.sensitivityAnalysis.sensitivityScore < 100

\* the tabular artifact with the columns ssn, email, notes
ThreeColumns == [fileType |-> "csv", insights |-> [detectedColumns |-> <<"ssn", "email", "notes">>]]

\* what C17 says of a sensitivity profile and the compliance scores made from it
StatedThreeColumns(sa, scores) ==
    /\ Len(sa.dataTypes) = 3
    /\ sa.dataTypes[1].type = "SSN" /\ sa.dataTypes[1].sensitivityScore = 95
    /\ sa.dataTypes[1].isPII
    /\ sa.dataTypes[2].type = "EMAIL" /\ sa.dataTypes[2].sensitivityScore = 80
    /\ sa.dataTypes[2].isPII
    /\ sa.dataTypes[3].type = "GENERAL" /\ sa.dataTypes[3].sensitivityScore \in 10..30
    /\ ~sa.dataTypes[3].isPII
    /\ sa.sensitivityScore \in 70..84
    /\ sa.sensitivityLevel = "RESTRICTED"
    /\ scores["GDPR"].score = scores["SOX"].score - 5

\* the profile of the three columns when Math.random is at position k of 21, and
\* the compliance scores made from it; the baseline of notes is the third draw
ThreeColumnsProfile(k) == analyzeSensitivity(ThreeColumns, [k |-> k, n |-> 21])

\* C17: the columns ssn, email, notes are classified SSN 95 PII, EMAIL 80 PII and
\* GENERAL non-PII with a baseline score; for each of the 21 baselines 10..30 the
\* sensitivity score is in 70..84, the level is RESTRICTED and GDPR scores 5 less
\* than SOX; and so it is in every assessment of these columns.
C17_ThreeColumnsRestricted ==
    fileAnalysis = ThreeColumns =>
        /\ {ThreeColumnsProfile(k).dataTypes[3].sensitivityScore : k \in 0..20} = 10..30
        /\ \A k \in 0..20 :
              StatedThreeColumns(ThreeColumnsProfile(k),
                                 assessCompliance(ThreeColumnsProfile(k),
                                                  [k |-> k, n |-> 21],
                                                  SensitivityDraws(ThreeColumns)))
        /\ Computed =>
              StatedThreeColumns(metrics.sensitivityAnalysis, metrics.complianceScores)

\* C17 witness: an assessment of the three columns, GDPR at 65 and SOX at 70
C17_Witness ==
    /\ Computed
    /\ fileAnalysis = ThreeColumns
    /\ metrics.sensitivityAnalysis.sensitivityLevel = "RESTRICTED"
    /\ metrics.complianceScores["GDPR"].score = 65
    /\ metrics.complianceScores["SOX"].score = 70

\* C18: in the session store a session has results exactly when it is completed,
\* and then one result for every file of the batch; and a getPrivacyDashboard or
\* getBusinessReport call for a session that is not completed (still processing,
\* in error, or unknown) throws 'No analysis results found'.
C18_ResultsOnlyWhenCompleted ==
    /\ [](\A id \in DOMAIN processingQueue :
            /\ HasResults(id) <=> processingQueue[id].status = "completed"
            /\ HasResults(id) =>
                  Len(processingQueue[id].results) = Len(processingQueue[id].files))
    /\ [][report' # report =>
             (\/ /\ report'.sessionId \in DOMAIN processingQueue
                 /\ processingQueue[report'.sessionId].status = "completed"
              \/ report'.thrown = "No analysis results found")]_vars

\* C18 witness: a dashboard call for the session was refused while a file of the
\* batch was being analysed
C18_Witness ==
    /\ pc = "analyzing"
    /\ report.call = "getPrivacyDashboard"
    /\ report.sessionId \in DOMAIN processingQueue
    /\ processingQueue[report.sessionId].status = "processing"
    /\ report.thrown = "No analysis results found"

C20_FrameworkPenaltyAnyFinding ==
    Computed =>
        \A f \in Frameworks :
            metrics.complianceScores[f].score =
                ClampScore(85 - LevelPenalty(metrics.sensitivityAnalysis.sensitivityLevel)
                              - PIIPenalty(Len(metrics.sensitivityAnalysis.piiFields))
                              - FrameworkPenalty(f, metrics.sensitivityAnalysis.dataTypes))

\* the rules a field name matches, and among them the one the statement names: of
\* highest score, the earliest in table order among equal scores
MatchingRules(column) ==
    {p \in 1..Len(sensitivePatterns) : RegexTest(sensitivePatterns[p].pattern, column)}

StatedRule(rules) ==
    CHOOSE p \in rules :
        \A q \in rules :
            \/ sensitivePatterns[q].score < sensitivePatterns[p].score
            \/ sensitivePatterns[q].score = sensitivePatterns[p].score /\ p <= q

StatedFindingOfRule(rule, finding) ==
    /\ finding.type = rule.type
    /\ finding.isPII = rule.isPII
    /\ finding.sensitivityScore = rule.score

StatedFindingOfRules(rules, finding, findings) ==
    IF rules # {}
    THEN StatedFindingOfRule(sensitivePatterns[StatedRule(rules)], finding)
    ELSE /\ finding.type = "GENERAL"
         /\ ~finding.isPII
         /\ finding.sensitivityScore > 0
         /\ \A j \in 1..Len(findings) :
               MatchingRules(findings[j].field) # {} =>
                   finding.confidence < findings[j].confidence

StatedTabularFinding(column, finding, findings) ==
    /\ finding.field = column
    /\ \A rules \in {MatchingRules(column)} :
          StatedFindingOfRules(rules, finding, findings)

\* C21: a tabular field name that matches one or more rules gives a finding with the
\* type, PII flag and score of the highest-scoring matching rule, the earliest in
\* table order among equal scores; a name matching no rule gives a GENERAL, non-PII
\* finding with a score above 0 and a confidence below that of every matched name.
C21_HighestScoringRuleWins ==
    (Computed /\ fileAnalysis.fileType = "csv") =>
        /\ Len(metrics.sensitivityAnalysis.dataTypes) =
              Len(Detected(fileAnalysis, "detectedColumns"))
        /\ \A i \in 1..Len(metrics.sensitivityAnalysis.dataTypes) :
              StatedTabularFinding(Detected(fileAnalysis, "detectedColumns")[i],
                                   metrics.sensitivityAnalysis.dataTypes[i],
                                   metrics.sensitivityAnalysis.dataTypes)

\* C21 witness: a table with a name matching two rules of equal score (phone and
\* age, both 75) and a name matching none
C21_Witness ==
    /\ Computed
    /\ fileAnalysis.fileType = "csv"
    /\ Detected(fileAnalysis, "detectedColumns") = <<"phone_age", "notes">>
    /\ Cardinality(MatchingRules("phone_age")) = 2
    /\ metrics.sensitivityAnalysis.dataTypes[1].type = "PHONE"
    /\ metrics.sensitivityAnalysis.dataTypes[2].type = "GENERAL"

\* the compliance step run again on the profile of this call with the generator at r
ComplianceAt(r) ==
    assessCompliance(metrics.sensitivityAnalysis, r, SensitivityDraws(fileAnalysis))

StatedChecklist(framework, requirements) ==
    /\ Len(requirements) = Len(constructor.complianceFrameworks[framework].requirements)
    /\ \A j \in 1..Len(requirements) :
          /\ requirements[j].requirement =
                constructor.complianceFrameworks[framework].requirements[j]
          /\ requirements[j].status \in {"MET", "PARTIAL"}
          /\ requirements[j].score \in 75..95

\* the compliance results made again from the same profile: scores and statuses as
\* in the call, and checklists of the stated form
StatedAdvisory(again) ==
    \A f \in Frameworks :
        /\ again[f].score = metrics.complianceScores[f].score
        /\ again[f].status = metrics.complianceScores[f].status
        /\ StatedChecklist(f, again[f].requirements)

\* C22: every framework result carries one checklist entry for each named requirement
\* of the framework, each with a score within 75..95; and whatever the checklist
\* draws are, the framework's score and status on the same profile are the same.
C22_ChecklistAdvisory ==
    Computed =>
        /\ \A f \in Frameworks :
              StatedChecklist(f, metrics.complianceScores[f].requirements)
        /\ \A again \in {ComplianceAt(r) : r \in RandomStates} : StatedAdvisory(again)

\* C22 witness: an assessment whose GDPR checklist has a PARTIAL entry, and another
\* position of the generator gives a different GDPR checklist for the same profile
C22_Witness ==
    /\ Computed
    /\ \E j \in 1..4 : metrics.complianceScores["GDPR"].requirements[j].status = "PARTIAL"
    /\ \E r \in RandomStates :
          ComplianceAt(r)["GDPR"].requirements # metrics.complianceScores["GDPR"].requirements

StatedComplianceSummary(summary, complianceScores) ==
    /\ summary.totalFrameworks = 4
    /\ summary.compliantCount + Len(summary.needsAttention) = summary.totalFrameworks
    /\ Cardinality(SeqRange(summary.needsAttention)) = Len(summary.needsAttention)
    /\ SeqRange(summary.needsAttention) =
          {[framework |-> f, score |-> complianceScores[f].score,
            status |-> complianceScores[f].status] :
              f \in {g \in Frameworks : complianceScores[g].status # "COMPLIANT"}}

StatedTopRecommendations(top, recommendations) ==
    /\ Len(top) = Min(2, Len(recommendations))
    /\ \A i \in 1..Len(top) :
          /\ top[i].technique = recommendations[i].technique
          /\ top[i].explanation = recommendations[i].reason
          /\ top[i].effectiveness =
                constructor.privacyTechniques[recommendations[i].technique].effectivenessScore

StatedExplanations(explanations, m) ==
    /\ StatedComplianceSummary(explanations.complianceStatus, m.complianceScores)
    /\ StatedTopRecommendations(explanations.topRecommendations, m.recommendedTechniques)

\* C23: the compliance summary of the explanations has compliantCount +
\* length(needsAttention) = totalFrameworks = 4, needsAttention holds exactly the
\* frameworks whose status is not COMPLIANT, each with its score and status, and the
\* top-recommendation explanations are the first min(2, n) recommendations in list
\* order with the effectiveness of the table.  This holds of generateExplanations on
\* the metrics of every call and of the explanations a call returns.
C23_ExplanationSummary ==
    /\ Computed => StatedExplanations(generateExplanations(metrics), metrics)
    /\ (Computed /\ ~IsErrorResult(returned)) =>
          StatedExplanations(returned.explanations, returned)

\* C23 witness: explanations returned for an assessment with more than two
\* recommendations where some frameworks are COMPLIANT and some are not
C23_Witness ==
    /\ Computed
    /\ ~IsErrorResult(returned)
    /\ Len(returned.recommendedTechniques) > 2
    /\ returned.explanations.complianceStatus.compliantCount \in 1..3

\* the overall score and risk level of a call, as computed and as returned, are
\* below the limit and never LOW
ScoreAtMostNeverLow(limit) ==
    (pc = "returned") =>
        /\ returned.overallScore <= limit
        /\ returned.riskLevel # "LOW"
        /\ Computed => (metrics.overallScore <= limit /\ metrics.riskLevel # "LOW")

\* C24 as stated: no call of assessPrivacy gives riskLevel LOW, and for every csv,
\* image, document or unrecognized input the overall score is at most 79.
C24_NeverLowAtMost79 == ScoreAtMostNeverLow(79)

\* C24: no call of assessPrivacy gives riskLevel LOW, and for every csv, image,
\* document or unrecognized input the overall score is at most 80 (the score of an
\* image with no detected object).
C24_NeverLowAtMost80 == ScoreAtMostNeverLow(80)

\* C24 witness: an image with no detected object is scored 80, MEDIUM
C24_Witness ==
    /\ Computed
    /\ fileAnalysis.fileType = "image"
    /\ Detected(fileAnalysis, "detectedObjects") = << >>
    /\ metrics.overallScore = 80
    /\ metrics.riskLevel = "MEDIUM"

\* the inputs the statement covers: an image, a document, or a table all of whose
\* column names match a rule
DrawFreeInput(fa) ==
    \/ fa.fileType \in {"image", "document"}
    \/ /\ fa.fileType = "csv"
       /\ \A i \in 1..Len(Detected(fa, "detectedColumns")) :
             MatchingRules(Detected(fa, "detectedColumns")[i]) # {}

FindingWithoutConfidence(finding) ==
    [f \in DOMAIN finding \ {"confidence"} |-> finding[f]]

\* what two runs have to agree on, of the object metrics or of the value returned
DrawFreePart(m) ==
    IF m.sensitivityAnalysis = EmptyObject \/ "error" \in DOMAIN m
    THEN [overallScore |-> m.overallScore, riskLevel |-> m.riskLevel,
          complianceScores |-> m.complianceScores,
          sensitivityAnalysis |-> m.sensitivityAnalysis,
          recommendedTechniques |-> m.recommendedTechniques]
    ELSE [overallScore |-> m.overallScore, riskLevel |-> m.riskLevel,
          complianceScores |->
              [f \in Frameworks |-> [score |-> m.complianceScores[f].score,
                                     status |-> m.complianceScores[f].status]],
          sensitivityAnalysis |->
              [sensitivityScore |-> m.sensitivityAnalysis.sensitivityScore,
               sensitivityLevel |-> m.sensitivityAnalysis.sensitivityLevel,
               dataTypes |-> [i \in 1..Len(m.sensitivityAnalysis.dataTypes) |->
                   FindingWithoutConfidence(m.sensitivityAnalysis.dataTypes[i])]],
          recommendedTechniques |-> m.recommendedTechniques]

\* a second call on the same input, with Math.random at another position
SecondRun == assessPrivacy(fileAnalysis, Advance(rng, 1), breakdownDefined)

\* C25: two calls of assessPrivacy on the same image, document, or table all of
\* whose column names match a rule agree on the sensitivity score and level, the
\* findings apart from their confidence, every framework's score and status, the
\* recommendation list, overallScore and riskLevel, whatever Math.random draws.
\* (Agreement of every position of the generator with the next one is agreement of
\* all of them.)
C25_DrawsDoNotReachScores ==
    (pc = "returned" /\ DrawFreeInput(fileAnalysis)) =>
        /\ DrawFreePart(SecondRun.metrics) = DrawFreePart(metrics)
        /\ DrawFreePart(SecondRun.returned) = DrawFreePart(returned)

\* C25 witness: a table of two matched columns whose second call differs from the
\* first in a confidence
C25_Witness ==
    /\ Computed
    /\ fileAnalysis.fileType = "csv"
    /\ Len(Detected(fileAnalysis, "detectedColumns")) = 2
    /\ DrawFreeInput(fileAnalysis)
    /\ SecondRun.metrics.sensitivityAnalysis.dataTypes # metrics.sensitivityAnalysis.dataTypes
    /\ SecondRun.metrics.complianceScores # metrics.complianceScores

\* C26: every file of a batch that validateFiles accepted is classified by
\* getFileType as csv, image or document, never as unknown, and so is every file
\* analysed.  (A file on which getFileType throws is left to C5.)
C26_AcceptedNeverUnknown ==
    (pc \notin {"idle", "rejected"}) =>
        /\ \A i \in 1..Len(files) :
              ~GetFileTypeThrows(files[i]) =>
                  getFileType(files[i]) \in {"csv", "image", "document"}
        /\ \A i \in 1..Len(results) :
              results[i].analysis.fileType \in {"csv", "image", "document"}

\* a step of one session of the store, from record s to record t
StatedSessionStep(s, t) ==
    /\ s.status # t.status =>
          (s.status = "processing" /\ t.status \in {"completed", "error"})
    /\ s.status # "processing" => t = s
    /\ (s.status = "processing" /\ t.status = "processing") => t.progress >= s.progress

StatedSessionRecord(s) ==
    /\ s.status \in {"processing", "completed", "error"}
    /\ s.progress \in 0..100
    /\ s.status = "completed" => s.progress = 100
    /\ s.status = "error" => s.progress = 0

\* C27: the status of a session of the store only moves from processing to completed
\* or from processing to error and the session does not change afterwards; while it
\* is processing its progress never decreases; the progress is always within 0..100,
\* 100 for a completed session and 0 for one in error.
C27_SessionStatusMoves ==
    /\ [](\A id \in DOMAIN processingQueue : StatedSessionRecord(processingQueue[id]))
    /\ [][/\ DOMAIN processingQueue \subseteq DOMAIN processingQueue'
          /\ \A id \in DOMAIN processingQueue :
                StatedSessionStep(processingQueue[id], processingQueue'[id])
          /\ \A id \in DOMAIN processingQueue' \ DOMAIN processingQueue :
                processingQueue'[id].status = "processing"]_processingQueue

\* C27 witness: a session in error after its first file had been analysed, the
\* progress back at 0
C27_Witness ==
    /\ pc = "error"
    /\ Len(results) = 1
    /\ processingQueue[sessionId].status = "error"
    /\ processingQueue[sessionId].progress = 0

\* the file list is one of the invalid ones: empty, more than 10 files, a file
\* larger than 100MB, or a file of an unsupported type
InvalidFileList(fs) ==
    \/ Len(fs) = 0
    \/ Len(fs) > 10
    \/ \E i \in 1..Len(fs) : fs[i].size > 100 * 1024 * 1024
    \/ \E i \in 1..Len(fs) : ~isSupportedFileType(fs[i])

\* C28: uploadFiles called with an invalid file list throws before a session id is
\* generated: the call draws nothing from Math.random, leaves the session store as
\* it was, and no file is analysed, then or later.
C28_InvalidUploadLeavesStore ==
    /\ [][(pc = "idle" /\ InvalidFileList(files)) =>
             /\ pc' = "rejected"
             /\ "thrown" \in DOMAIN response'
             /\ processingQueue' = processingQueue
             /\ rng' = rng
             /\ results' = results]_<<pc, rng, results>>
    /\ []((pc # "idle" /\ InvalidFileList(files)) =>
             /\ pc = "rejected"
             /\ processingQueue = EmptyObject
             /\ results = << >>
             /\ fileAnalysis = Undefined)

\* C28 witness: a list of a valid file followed by one of 200MB was rejected
C28_Witness ==
    /\ pc = "rejected"
    /\ Len(files) = 2
    /\ validateFiles(<<files[1]>>).valid
    /\ files[2].size > maxFileSize
    /\ processingQueue = EmptyObject

\* C29: once reset() has put the upload hook in state idle with progress 0 and null
\* results, error and sessionId, the hook stays so until uploadFiles is called
\* again: the only step that changes it makes it 'uploading', also when an upload
\* started before the reset completes or fails afterwards.
C29_IdleUntilNextUpload ==
    [][upload = IdleUpload =>
          (upload' = IdleUpload \/ upload'.uploadStatus = "uploading")]_upload

\* the user interface at rest: no upload or dashboard request is pending and the
\* effect of App has run for the values it depends on
UIAtRest ==
    /\ inflight.uploads = {}
    /\ inflight.loads = {}
    /\ EffectDeps(upload, dashboard) = app.effectDeps

\* C30: whenever an upload has completed with session id s, the dashboard gets loaded
\* for s and the dashboard data the UI holds belong to s, also for a second upload
\* made after Reset: once nothing is pending any more, the data shown are those of
\* the session the hook holds, never those of an earlier one.
C30_DashboardOfCompletedSession ==
    (UIAtRest /\ upload.uploadStatus = "completed" /\ upload.sessionId # Null)
        => /\ dashboard.dashboardData # Null
           /\ dashboard.dashboardData[1].of = upload.sessionId[1]
====
